---- MODULE Spec2Model ----
(***************************************************************************)
(* Model of the conversation anti-pattern detectors of rahulskills:        *)
(*   codex/check-antipatterns/checker.py        (real-time checker)        *)
(*   codex/analyze-conversation/patterns.py     (retrospective analysis)   *)
(*   codex/analyze-conversation/generate_report.py (compliance score)      *)
(*                                                                         *)
(* Strings are modelled as sequences of PIECES.  A piece is an atomic      *)
(* fragment of text (a word, a blank " ", a punctuation mark) written as a *)
(* TLA+ string; the text is the concatenation of its pieces.  Every        *)
(* keyword of the code is written as the sequence of pieces it is made of, *)
(* and the input texts are cut at the same places, so that substring,      *)
(* prefix, split and regular-expression tests of the code are computed     *)
(* piece by piece exactly as the code computes them character by           *)
(* character.                                                              *)
(***************************************************************************)
EXTENDS Integers, Sequences, FiniteSets, TLC

VARIABLES
    project,       \* the files of the project directory the sync runs on
    report,        \* what the runs of the sync returned and printed, in order
    lines,         \* the lines of the transcript file handed to a loader
    lookback,      \* load_conversation's lookback argument
    messages,      \* the transcript handed to the detectors (0-based in the code,
                   \* messages[i+1] here is the code's messages[i])
    pc,            \* the set of operations that have run
    warnings,      \* list returned by a checker.py detector
    findings,      \* list returned by a patterns.py detector
    total_rules,   \* len(rules['universal_rules'])
    violations,    \* number of warnings / findings handed to the score
    compliance     \* the compliance score computed

vars == <<project, report, lines, lookback, messages, pc, warnings, findings, total_rules, violations, compliance>>

----------------------------------------------------------------------------
(* Bounds of the model *)

\* checker.py load_conversation(filepath, lookback=50)
DefaultLookback == 50

MaxRules == 8        \* rule counts 0..MaxRules
MaxViolations == 12  \* violation counts 0..MaxViolations
MaxRetryLen == 3     \* transcripts of the retry detectors have 0..MaxRetryLen messages

----------------------------------------------------------------------------
(* Text: sequences of pieces *)

\* str.lower() on one piece: the pieces of the model that hold capitals
LowerPiece(p) ==
    CASE p = "PASSWORD" -> "password"
      [] p = "DB_" -> "db_"
      [] p = "Kubectl" -> "kubectl"
      [] p = "Logs" -> "logs"
      [] p = "Get" -> "get"
      [] p = "Secret" -> "secret"
      [] p = "I" -> "i"
      [] p = "I'll" -> "i'll"
      [] p = "Additionally" -> "additionally"
      [] p = "Let" -> "let"
      [] p = "Pytest" -> "pytest"
      [] p = "E2E" -> "e2e"
      [] p = "Health" -> "health"
      [] p = "Router" -> "router"
      [] p = "Roadmap" -> "roadmap"
      [] p = "Fallback" -> "fallback"
      [] OTHER -> p

\* str.lower()
Lower(t) == [i \in DOMAIN t |-> LowerPiece(t[i])]

\* the whitespace of str.strip(), str.split() and the regular expressions' \s
IsSpace(p) == p \in {" ", "\n", "\t"}

Min(a, b) == IF a <= b THEN a ELSE b
Max(a, b) == IF a >= b THEN a ELSE b

RECURSIVE LStrip(_)
LStrip(t) == IF t # <<>> /\ IsSpace(Head(t)) THEN LStrip(Tail(t)) ELSE t

RECURSIVE RStrip(_)
RStrip(t) ==
    IF t # <<>> /\ IsSpace(t[Len(t)]) THEN RStrip(SubSeq(t, 1, Len(t) - 1)) ELSE t

\* str.strip()
Strip(t) == RStrip(LStrip(t))

\* str.startswith(prefix)
StartsWith(t, prefix) ==
    Len(prefix) <= Len(t) /\ SubSeq(t, 1, Len(prefix)) = prefix

\* `kw in t` for strings: kw occurs as a contiguous run of t
Contains(t, kw) ==
    \E i \in 1..(Len(t) - Len(kw) + 1) : SubSeq(t, i, i + Len(kw) - 1) = kw

\* any(kw in t for kw in kws)
ContainsAny(t, kws) == \E kw \in kws : Contains(t, kw)

\* str.split(): the maximal runs of non-whitespace pieces, each run one word
RECURSIVE SplitWords(_, _, _)
SplitWords(t, cur, acc) ==
    IF t = <<>>
    THEN IF cur = <<>> THEN acc ELSE Append(acc, cur)
    ELSE IF IsSpace(Head(t))
         THEN SplitWords(Tail(t), <<>>, IF cur = <<>> THEN acc ELSE Append(acc, cur))
         ELSE SplitWords(Tail(t), Append(cur, Head(t)), acc)

Split(t) == SplitWords(t, <<>>, <<>>)

\* sep.join(parts), sep one piece and every part a text
RECURSIVE Join(_, _)
Join(sep, parts) ==
    IF parts = <<>> THEN <<>>
    ELSE IF Len(parts) = 1 THEN parts[1]
    ELSE parts[1] \o <<sep>> \o Join(sep, Tail(parts))

\* number of characters of a text
RECURSIVE CharLen(_)
CharLen(t) == IF t = <<>> THEN 0 ELSE Len(Head(t)) + CharLen(Tail(t))

\* s[:n] for a text: the pieces that lie wholly in the first n characters
\* (no text of the model is cut inside a piece)
RECURSIVE TakeChars(_, _)
TakeChars(t, n) ==
    IF t = <<>> \/ Len(Head(t)) > n THEN <<>>
    ELSE <<Head(t)>> \o TakeChars(Tail(t), n - Len(Head(t)))

\* concatenation of a sequence of sequences
RECURSIVE Flatten(_)
Flatten(ss) == IF ss = <<>> THEN <<>> ELSE Head(ss) \o Flatten(Tail(ss))

\* the elements of s that satisfy Test, in order
Filter(s, Test(_)) == SelectSeq(s, Test)

\* the elements of s in order of first occurrence, each once
RECURSIVE Dedup(_, _)
Dedup(s, seen) ==
    IF s = <<>> THEN <<>>
    ELSE IF Head(s) \in seen THEN Dedup(Tail(s), seen)
    ELSE <<Head(s)>> \o Dedup(Tail(s), seen \cup {Head(s)})

----------------------------------------------------------------------------
(* Messages: a record of the transcript.  type is the record's 'type';     *)
(* its message.content is a string (shape "str", in text) or a list of     *)
(* content items (shape "list", in items).                                 *)

TextItem(t) == [type |-> "text", name |-> "", text |-> t, command |-> <<>>]
BashItem(c) == [type |-> "tool_use", name |-> "Bash", text |-> <<>>, command |-> c]
ReadItem == [type |-> "tool_use", name |-> "Read", text |-> <<>>, command |-> <<>>]

StrMsg(role, t) == [type |-> role, shape |-> "str", text |-> t, items |-> <<>>]
ListMsg(role, its) == [type |-> role, shape |-> "list", text |-> <<>>, items |-> its]

\* checker.py / patterns.py extract_text(content)
extract_text(msg) ==
    IF msg.shape = "str" THEN msg.text
    ELSE Join("\n", [k \in 1..Len(Filter(msg.items, LAMBDA it : it.type = "text"))
                       |-> Filter(msg.items, LAMBDA it : it.type = "text")[k].text])

\* mutant of BashOfMessage: the role of the message is not tested
BashOfMessage_AnyRole(msg, i) ==
    IF msg.shape # "list" THEN <<>>
    ELSE LET bash == Filter(msg.items, LAMBDA it : it.name = "Bash")
         IN  [k \in 1..Len(bash) |-> [idx |-> i, cmd |-> bash[k].command]]

\* the Bash commands of one message, in order (the inner loop of
\* extract_bash_commands); i is the code's 0-based message index
BashOfMessage(msg, i) ==
    IF msg.type # "assistant" \/ msg.shape # "list" THEN <<>>
    ELSE LET bash == Filter(msg.items, LAMBDA it : it.name = "Bash")
         IN  [k \in 1..Len(bash) |-> [idx |-> i, cmd |-> bash[k].command]]

\* checker.py extract_bash_commands: the (index, command) pairs, 0-based index
extract_bash_commands(msgs) ==
    Flatten([i \in 1..Len(msgs) |-> BashOfMessage(msgs[i], i - 1)])

----------------------------------------------------------------------------
(* Compliance score *)

\* Python's int() of a float: truncation toward zero.  The quotient is given
\* as numerator n and denominator d > 0.  (For every d <= 19 and |n| <= 100*27
\* of the shape 100*(T - v), the double-precision value ((T - v) / T) * 100 of
\* the code truncates to the same integer as the exact quotient.)
IntOfQuotient(n, d) ==
    IF n >= 0 THEN n \div d ELSE -((-n) \div d)

\* checker.py generate_report: the score from the rule count and len(warnings)
CheckerCompliance(T, v) ==
    IF T > 0 THEN IntOfQuotient((T - v) * 100, T) ELSE 100

RulesInReport == 15

\* generate_report.py generate_markdown_report: the score from the finding count
ReportCompliance(v) ==
    LET total_opportunities == v + RulesInReport
    IN  IF total_opportunities > 0
        THEN IntOfQuotient((total_opportunities - v) * 100, total_opportunities)
        ELSE 100

InitScore ==
    /\ messages = <<>>
    /\ pc = {}
    /\ project = <<>>
    /\ report = <<>>
    /\ lines = <<>>
    /\ lookback = DefaultLookback
    /\ warnings = <<>>
    /\ findings = <<>>
    /\ total_rules \in 0..MaxRules
    /\ violations \in 0..MaxViolations
    /\ compliance = 100

\* checker.py generate_report, lines 384-387
CheckerScore ==
    /\ pc = {}
    /\ compliance' = CheckerCompliance(total_rules, violations)
    /\ pc' = {"checker_scored"}
    /\ UNCHANGED <<project, report, lines, lookback, messages, warnings, findings, total_rules, violations>>

\* generate_report.py generate_markdown_report, lines 429-432
ReportScore ==
    /\ pc = {}
    /\ compliance' = ReportCompliance(violations)
    /\ pc' = {"report_scored"}
    /\ UNCHANGED <<project, report, lines, lookback, messages, warnings, findings, total_rules, violations>>

NextScore == CheckerScore \/ ReportScore

SpecScore == InitScore /\ [][NextScore]_vars

\* C1: for every number of warnings v >= 0 and every rule count >= 0 the
\* compliance score computed by generate_report and by generate_markdown_report
\* is an integer in [0, 100]; it is 0, not negative, when v exceeds the rule count.
C1_ScoreClamped ==
    pc # {} =>
        /\ compliance \in 0..100
        /\ ("checker_scored" \in pc /\ total_rules > 0 /\ violations > total_rules)
               => compliance = 0


\* n is an integer nearest to the quotient a / b (b > 0)
IsNearest(n, a, b) ==
    (IF a >= n * b THEN a - n * b ELSE n * b - a) * 2 <= b

\* C23: for every rule count T > 0 and every violation count v with
\* 0 <= v <= T the checker's compliance score equals 100 * (T - v) / T rounded
\* to the nearest integer.
C23_ScoreRoundedToNearest ==
    ("checker_scored" \in pc /\ total_rules > 0 /\ violations <= total_rules) =>
        IsNearest(compliance, 100 * (total_rules - violations), total_rules)

\* the same with the quotient rounded down
C23_ScoreRoundedDown ==
    ("checker_scored" \in pc /\ total_rules > 0 /\ violations <= total_rules) =>
        /\ compliance * total_rules <= 100 * (total_rules - violations)
        /\ 100 * (total_rules - violations) < (compliance + 1) * total_rules

----------------------------------------------------------------------------
(* checker.py: command taxonomy and the retry-without-diagnosis detector *)

\* a phrase of single-blank-separated words as a text: Phrase(<<"a","b">>) is "a b"
Phrase(ws) == Join(" ", [i \in DOMAIN ws |-> <<ws[i]>>])

\* checker.py ACTION_COMMANDS
ACTION_COMMANDS ==
    { Phrase(<<"pytest">>), Phrase(<<"npm", "test">>), Phrase(<<"npm", "run", "test">>),
      Phrase(<<"npx", "playwright">>),
      Phrase(<<"helm", "install">>), Phrase(<<"helm", "upgrade">>),
      Phrase(<<"kubectl", "apply">>), Phrase(<<"kubectl", "create">>),
      Phrase(<<"kubectl", "delete">>),
      Phrase(<<"docker", "build">>), Phrase(<<"docker", "push">>),
      Phrase(<<"git", "commit">>), Phrase(<<"git", "push">>),
      Phrase(<<"bootstrap">>), Phrase(<<"deploy">>), Phrase(<<"make">>) }

\* checker.py DIAGNOSTIC_COMMANDS
DIAGNOSTIC_COMMANDS ==
    { Phrase(<<"git", "status">>), Phrase(<<"git", "diff">>), Phrase(<<"git", "log">>),
      Phrase(<<"kubectl", "get">>), Phrase(<<"kubectl", "describe">>),
      Phrase(<<"kubectl", "logs">>), Phrase(<<"kubectl", "get", "events">>),
      Phrase(<<"curl">>), Phrase(<<"docker", "ps">>), Phrase(<<"docker", "images">>),
      Phrase(<<"ls">>), Phrase(<<"cat">>), Phrase(<<"head">>), Phrase(<<"tail">>),
      Phrase(<<"ps", "aux">>), Phrase(<<"netstat">>), Phrase(<<"lsof">>) }

\* checker.py is_action_command
is_action_command(cmd) ==
    \E action \in ACTION_COMMANDS : StartsWith(Strip(Lower(cmd)), action)

\* checker.py is_diagnostic_command
is_diagnostic_command(cmd) ==
    \E diag \in DIAGNOSTIC_COMMANDS : StartsWith(Strip(Lower(cmd)), diag)

KeyWords == 3

\* ' '.join(cmd.split()[:3]): the key under which occurrences are grouped
CommandKey(cmd) ==
    Join(" ", SubSeq(Split(cmd), 1, Min(KeyWords, Len(Split(cmd)))))

\* the keyword list of check_retry_without_diagnosis
RetryDiagnosticKeywords ==
    { Phrase(<<"kubectl", "logs">>), Phrase(<<"kubectl", "describe">>),
      Phrase(<<"kubectl", "get", "events">>), Phrase(<<"docker", "logs">>),
      Phrase(<<"journalctl">>), <<"cat", " ", "/var/log">> }

\* mutant of DiagnosticBetween: the two occurrences' own messages are searched too
DiagnosticBetween_Inclusive(msgs, first_idx, second_idx) ==
    \E msg_idx \in first_idx..second_idx :
        /\ msg_idx < Len(msgs)
        /\ ContainsAny(Lower(extract_text(msgs[msg_idx + 1])), RetryDiagnosticKeywords)

\* the inner loop over range(first_idx + 1, second_idx): some message strictly
\* between the two (0-based) indices has a diagnostic keyword in its lowered text
DiagnosticBetween(msgs, first_idx, second_idx) ==
    \E msg_idx \in (first_idx + 1)..(second_idx - 1) :
        /\ msg_idx < Len(msgs)
        /\ ContainsAny(Lower(extract_text(msgs[msg_idx + 1])), RetryDiagnosticKeywords)

CommandDisplayChars == 100

\* the warning appended for a pair of occurrences; message_range f"{a}-{b}" is
\* kept as the pair of numbers it is formatted from
RetryWarning(first, second) ==
    [ type |-> "RETRY_WITHOUT_DIAGNOSIS", severity |-> "MEDIUM",
      message_range |-> <<first.idx, second.idx>>,
      command |-> TakeChars(first.cmd, CommandDisplayChars) ]

\* mutant of RetryWarningsOfKey: every later occurrence is paired with every
\* earlier one, not only with its predecessor
RetryWarningsOfKey_AllPairs(msgs, occurrences) ==
    Flatten([i \in 1..(Len(occurrences) - 1) |->
        Flatten([j \in 1..(Len(occurrences) - i) |->
            IF DiagnosticBetween(msgs, occurrences[i].idx, occurrences[i + j].idx)
            THEN <<>>
            ELSE <<RetryWarning(occurrences[i], occurrences[i + j])>>])])

\* the loop over range(len(occurrences) - 1) for one key
RetryWarningsOfKey(msgs, occurrences) ==
    Flatten([i \in 1..(Len(occurrences) - 1) |->
        IF DiagnosticBetween(msgs, occurrences[i].idx, occurrences[i + 1].idx)
        THEN <<>>
        ELSE <<RetryWarning(occurrences[i], occurrences[i + 1])>>])

\* the occurrences tracked in cmd_occurrences: the action commands, in order
ActionOccurrences(msgs) ==
    Filter(extract_bash_commands(msgs), LAMBDA c : is_action_command(c.cmd))

\* the keys of cmd_occurrences in insertion order
RetryKeys(msgs) ==
    LET occ == ActionOccurrences(msgs)
    IN  Dedup([k \in 1..Len(occ) |-> CommandKey(occ[k].cmd)], {})

\* the hash seeds of two interpreter runs (PYTHONHASHSEED): the iteration
\* order of a set of strings depends on it, the order of a dict does not
HashSeeds == {0, 1}

\* mutant of ItemsOrder: the keys in an order that depends on the hash seed
ItemsOrder_HashOrder(keys, seed) ==
    IF seed = 0 THEN keys ELSE [k \in 1..Len(keys) |-> keys[Len(keys) + 1 - k]]

\* cmd_occurrences.items(): a dict iterates in insertion order under every
\* hash seed
ItemsOrder(keys, seed) == keys

\* checker.py check_retry_without_diagnosis in a run with the given hash seed
RetryWarningsInRun(msgs, seed) ==
    LET occ == ActionOccurrences(msgs)
        keys == ItemsOrder(RetryKeys(msgs), seed)
    IN  Flatten([k \in 1..Len(keys) |->
            RetryWarningsOfKey(msgs,
                Filter(occ, LAMBDA c : CommandKey(c.cmd) = keys[k]))])

\* checker.py check_retry_without_diagnosis
check_retry_without_diagnosis(msgs) == RetryWarningsInRun(msgs, 0)

----------------------------------------------------------------------------
(* patterns.py: the full-history retry detector *)

\* patterns.py NORMAL_RETRY_COMMANDS
NORMAL_RETRY_COMMANDS ==
    { Phrase(<<"pytest">>), Phrase(<<"python", "-m", "pytest">>),
      Phrase(<<"npm", "test">>), Phrase(<<"npm", "run", "test">>),
      Phrase(<<"go", "test">>), Phrase(<<"cargo", "test">>), Phrase(<<"make", "test">>),
      Phrase(<<"git", "status">>), Phrase(<<"git", "diff">>), Phrase(<<"git", "log">>),
      Phrase(<<"kubectl", "get">>), Phrase(<<"kubectl", "describe">>),
      Phrase(<<"docker", "ps">>),
      Phrase(<<"ls">>), Phrase(<<"pwd">>), Phrase(<<"cat">>), Phrase(<<"head">>),
      Phrase(<<"tail">>) }

\* mutant of is_normal_retry_command: the whole command is compared
is_normal_retry_command_Exact(cmd) ==
    \E normal_cmd \in NORMAL_RETRY_COMMANDS : Strip(Lower(cmd)) = normal_cmd

\* patterns.py is_normal_retry_command
is_normal_retry_command(cmd) ==
    \E normal_cmd \in NORMAL_RETRY_COMMANDS : StartsWith(Strip(Lower(cmd)), normal_cmd)

\* the word list of find_retry_without_diagnosis (matched case-sensitively)
PatternsDiagnosisWords ==
    { Phrase(<<"kubectl", "logs">>), Phrase(<<"kubectl", "describe">>),
      Phrase(<<"kubectl", "get", "events">>), <<"error">>, <<"failed">>, <<"traceback">> }

\* the loop over messages[prev['index']:i]: first_idx <= m < retry_idx
CheckedLogs(msgs, first_idx, retry_idx) ==
    \E m \in first_idx..(retry_idx - 1) :
        ContainsAny(extract_text(msgs[m + 1]), PatternsDiagnosisWords)

RecentCommands == 5

\* the findings appended when the k-th Bash command of the transcript is read:
\* one for each equal command among recent_commands[-6:-1]
RetryFindingsAt(msgs, cmds, k) ==
    IF is_normal_retry_command(cmds[k].cmd) \/ k < 2 THEN <<>>
    ELSE Flatten([d \in 1..Min(RecentCommands, k - 1) |->
            LET prev == cmds[Max(1, k - RecentCommands) + d - 1]
            IN  IF prev.cmd = cmds[k].cmd /\ ~CheckedLogs(msgs, prev.idx, cmds[k].idx)
                THEN << [ type |-> "RETRY_WITHOUT_DIAGNOSIS",
                          command |-> TakeChars(cmds[k].cmd, CommandDisplayChars),
                          first_attempt |-> prev.idx,
                          retry_attempt |-> cmds[k].idx ] >>
                ELSE <<>>])

\* patterns.py find_retry_without_diagnosis
find_retry_without_diagnosis(msgs) ==
    LET cmds == extract_bash_commands(msgs)
    IN  Flatten([k \in 1..Len(cmds) |-> RetryFindingsAt(msgs, cmds, k)])


----------------------------------------------------------------------------
(* Transcripts of the retry detectors *)

ApplyA == Phrase(<<"kubectl", "apply", "-f", "a.yaml">>)
ApplyB == Phrase(<<"kubectl", "apply", "-f", "b.yaml">>)
PytestFoo == Phrase(<<"pytest", "test_foo.py">>)
LogsX == Phrase(<<"kubectl", "logs", "x">>)
HelmUp == Phrase(<<"helm", "upgrade", "web">>)

RetryAlphabet ==
    { ListMsg("assistant", <<BashItem(ApplyA)>>),
      ListMsg("assistant", <<BashItem(ApplyB)>>),
      ListMsg("assistant", <<BashItem(PytestFoo)>>),
      ListMsg("assistant", <<BashItem(HelmUp), BashItem(HelmUp)>>),
      \* a diagnostic run as a tool call, no text
      ListMsg("assistant", <<BashItem(LogsX)>>),
      \* a diagnostic keyword in assistant text
      ListMsg("assistant", <<TextItem(Phrase(<<"checked", "kubectl", "describe", "pod">>))>>),
      \* the same keyword in the message that also runs the action
      ListMsg("assistant", <<TextItem(Phrase(<<"after", "kubectl", "logs">>)),
                             BashItem(ApplyA)>>),
      \* capitals: found by the checker's lowered match only
      StrMsg("assistant", Phrase(<<"Kubectl", "Logs", "say", "ok">>)),
      \* a user turn that reports a failure
      StrMsg("user", Phrase(<<"it", "failed">>)),
      StrMsg("user", Phrase(<<"go", "on">>)) }

RetryTranscripts ==
    UNION { [1..n -> RetryAlphabet] : n \in 0..MaxRetryLen }

InitRetry ==
    /\ messages \in RetryTranscripts
    /\ pc = {}
    /\ project = <<>>
    /\ report = <<>>
    /\ lines = <<>>
    /\ lookback = DefaultLookback
    /\ warnings = <<>>
    /\ findings = <<>>
    /\ total_rules = 0
    /\ violations = 0
    /\ compliance = 100

\* checker.py check_retry_without_diagnosis(messages)
CheckRetry ==
    /\ "check_retry" \notin pc
    /\ warnings' = check_retry_without_diagnosis(messages)
    /\ pc' = pc \cup {"check_retry"}
    /\ UNCHANGED <<project, report, lines, lookback, messages, findings, total_rules, violations, compliance>>

\* patterns.py find_retry_without_diagnosis(messages)
FindRetry ==
    /\ "find_retry" \notin pc
    /\ findings' = find_retry_without_diagnosis(messages)
    /\ pc' = pc \cup {"find_retry"}
    /\ UNCHANGED <<project, report, lines, lookback, messages, warnings, total_rules, violations, compliance>>

NextRetry == CheckRetry \/ FindRetry

SpecRetry == InitRetry /\ [][NextRetry]_vars

\* the elements of a sequence as a set
Range(s) == {s[i] : i \in DOMAIN s}

\* the number of indices of s whose element satisfies Test
Count(s, Test(_)) == Cardinality({i \in DOMAIN s : Test(s[i])})

\* the test prefixes of the command taxonomy (generate_report.py
\* NORMAL_TEST_COMMANDS) and the diagnostic prefixes of the checker
TestOrDiagnostic(cmd) ==
    \/ is_diagnostic_command(cmd)
    \/ \E test_cmd \in { Phrase(<<"pytest">>), Phrase(<<"python", "-m", "pytest">>),
                          Phrase(<<"npm", "test">>), Phrase(<<"npm", "run", "test">>),
                          Phrase(<<"go", "test">>), Phrase(<<"cargo", "test">>) } :
           StartsWith(Strip(Lower(cmd)), test_cmd)

\* C2: check_retry_without_diagnosis never emits a RETRY_WITHOUT_DIAGNOSIS
\* warning for a command that matches a test or diagnostic prefix, even when
\* the command also matches an action prefix.
C2_NoRetryWarningForTestCommand ==
    "check_retry" \in pc =>
        \A i \in DOMAIN warnings : ~TestOrDiagnostic(warnings[i].command)


\* the action occurrences of one key, in transcript order
OccurrencesOfKey(key) ==
    Filter(ActionOccurrences(messages), LAMBDA c : CommandKey(c.cmd) = key)

\* the warnings emitted for one key, in order
WarningsOfKey(key) ==
    Filter(warnings, LAMBDA w : CommandKey(w.command) = key)

ActionKeys == {CommandKey(c.cmd) : c \in Range(ActionOccurrences(messages))}

\* the positions k such that occurrences k and k+1 of the key lie at indices a, b
ConsecutiveAt(key, a, b) ==
    LET ko == OccurrencesOfKey(key)
    IN  {k \in 1..(Len(ko) - 1) : ko[k].idx = a /\ ko[k + 1].idx = b}

\* some message strictly between a and b has a diagnostic keyword in its text
KeywordStrictlyBetween(a, b) ==
    \E m \in 0..(Len(messages) - 1) :
        /\ a < m /\ m < b
        /\ ContainsAny(Lower(extract_text(messages[m + 1])), RetryDiagnosticKeywords)

NoKeywordAnywhere ==
    \A m \in DOMAIN messages :
        ~ContainsAny(Lower(extract_text(messages[m])), RetryDiagnosticKeywords)

\* C3: for an action key occurring at indices i1 <= ... <= in, warnings are
\* emitted only for consecutive pairs (ik, ik+1), at most one per pair; with no
\* diagnostic keyword anywhere in the transcript exactly n-1 warnings are
\* emitted for that key.
C3_ConsecutivePairsOnly ==
    "check_retry" \in pc =>
        /\ \A i \in DOMAIN warnings : CommandKey(warnings[i].command) \in ActionKeys
        /\ \A key \in ActionKeys :
              /\ \A w \in Range(WarningsOfKey(key)) :
                    /\ Len(w.message_range) = 2
                    /\ Count(WarningsOfKey(key),
                             LAMBDA x : x.message_range = w.message_range)
                         <= Cardinality(ConsecutiveAt(key, w.message_range[1],
                                                      w.message_range[2]))
              /\ NoKeywordAnywhere =>
                    Len(WarningsOfKey(key)) = Len(OccurrencesOfKey(key)) - 1

\* a key with three occurrences, no keyword in the transcript, two warnings
C3_Witness ==
    /\ "check_retry" \in pc
    /\ NoKeywordAnywhere
    /\ \E key \in ActionKeys :
          /\ Len(OccurrencesOfKey(key)) = 3
          /\ Len(WarningsOfKey(key)) = 2
          /\ OccurrencesOfKey(key)[1].idx < OccurrencesOfKey(key)[2].idx
          /\ OccurrencesOfKey(key)[2].idx < OccurrencesOfKey(key)[3].idx

\* C4: a consecutive pair of occurrences at (a, b) of the same action key is
\* flagged if and only if no message m with a < m < b has a diagnostic keyword
\* in its text; a keyword only in message a or only in message b does not
\* suppress the warning.
C4_FlaggedIffNoKeywordBetween ==
    "check_retry" \in pc =>
        \A key \in ActionKeys :
            \A k \in 1..(Len(OccurrencesOfKey(key)) - 1) :
                LET a == OccurrencesOfKey(key)[k].idx
                    b == OccurrencesOfKey(key)[k + 1].idx
                IN  (\E w \in Range(WarningsOfKey(key)) : w.message_range = <<a, b>>)
                        <=> ~KeywordStrictlyBetween(a, b)

\* a flagged pair whose first message itself holds a keyword, and in the same
\* transcript a pair that a keyword strictly between suppresses
C4_Witness ==
    /\ "check_retry" \in pc
    /\ \E key \in ActionKeys :
          \E k \in 1..(Len(OccurrencesOfKey(key)) - 1) :
              LET a == OccurrencesOfKey(key)[k].idx
                  b == OccurrencesOfKey(key)[k + 1].idx
              IN  /\ ContainsAny(Lower(extract_text(messages[a + 1])),
                                 RetryDiagnosticKeywords)
                  /\ \E w \in Range(warnings) : w.message_range = <<a, b>>

\* a pair suppressed by a keyword strictly between its two occurrences
C4_WitnessSuppressed ==
    /\ "check_retry" \in pc
    /\ warnings = <<>>
    /\ \E key \in ActionKeys :
          \E k \in 1..(Len(OccurrencesOfKey(key)) - 1) :
              KeywordStrictlyBetween(OccurrencesOfKey(key)[k].idx,
                                     OccurrencesOfKey(key)[k + 1].idx)

\* the (first-attempt index, retry index) pairs each detector flags
CheckerRetryPairs == {warnings[i].message_range : i \in DOMAIN warnings}
PatternsRetryPairs ==
    {<<findings[i].first_attempt, findings[i].retry_attempt>> : i \in DOMAIN findings}

\* C5: for every transcript of at most 50 messages the recent-mode detector
\* (checker) and the full-history detector (patterns) flag exactly the same
\* set of (first-attempt index, retry index) pairs.
C5_SameRetryPairs ==
    ({"check_retry", "find_retry"} \subseteq pc /\ Len(messages) <= 50) =>
        CheckerRetryPairs = PatternsRetryPairs


----------------------------------------------------------------------------
(* Regular expressions of the credential detectors, piece by piece *)

\* the end j of a match of  kw \s* =  that starts at piece i of the lowered
\* text t (0 when there is none): the keyword, any whitespace, then "="
AssignEnd(t, i, kw) ==
    IF i + Len(kw) - 1 <= Len(t) /\ SubSeq(t, i, i + Len(kw) - 1) = kw
    THEN LET after == i + Len(kw)
             eqs == {j \in after..Len(t) :
                       /\ t[j] = "="
                       /\ \A k \in after..(j - 1) : IsSpace(t[k])}
         IN  IF eqs = {} THEN 0 ELSE CHOOSE j \in eqs : TRUE
    ELSE 0

\* re.search(pattern, text, re.IGNORECASE) for a pattern  (kw1|kw2|..)\s*= :
\* the leftmost match as <<start piece, end piece>>, <<0, 0>> when none
SearchAssign(text, kws) ==
    LET t == Lower(text)
        starts == {i \in 1..Len(t) : \E kw \in kws : AssignEnd(t, i, kw) > 0}
    IN  IF starts = {} THEN <<0, 0>>
        ELSE LET i == CHOOSE x \in starts : \A y \in starts : x <= y
                 kw == CHOOSE w \in kws : AssignEnd(t, i, w) > 0
             IN  <<i, AssignEnd(t, i, kw)>>

\* checker.py CREDENTIAL_PATTERNS, each pattern the keywords it allows before \s*=
CREDENTIAL_PATTERNS ==
    << {<<"password">>},
       {<<"secret">>},
       {<<"api", "_", "key">>, <<"api", "key">>},
       {<<"token">>},
       {<<"credential">>},
       {<<"api", "key">>},
       {<<"secret", "_", "key">>} >>

\* the first pattern of CREDENTIAL_PATTERNS the command matches, 0 when none
FirstCredentialPattern(cmd) ==
    LET hits == {k \in DOMAIN CREDENTIAL_PATTERNS :
                    SearchAssign(cmd, CREDENTIAL_PATTERNS[k])[1] > 0}
    IN  IF hits = {} THEN 0 ELSE CHOOSE k \in hits : \A h \in hits : k <= h

\* s[a:b] for a text and character offsets: the pieces that lie wholly in
\* it (a piece that a bound cuts is dropped)
RECURSIVE SliceChars(_, _, _)
SliceChars(t, a, b) ==
    IF t = <<>> \/ b <= 0 THEN <<>>
    ELSE IF a > 0 THEN SliceChars(Tail(t), a - Len(Head(t)), b - Len(Head(t)))
    ELSE IF Len(Head(t)) > b THEN <<>>
    ELSE <<Head(t)>> \o SliceChars(Tail(t), 0, b - Len(Head(t)))

----------------------------------------------------------------------------
(* checker.py check_credential_usage *)

GetSecret == Phrase(<<"kubectl", "get", "secret">>)

\* the two substrings tested in the first pass (the second is the literal
\* text "kubectl.*secret": `in` does not interpret it as a pattern)
SecretReadMarkers == { GetSecret, <<"kubectl", ".*", "secret">> }

\* first pass: kubectl_secret_indices (0-based), assistant messages only
kubectl_secret_indices(msgs) ==
    {i \in 0..(Len(msgs) - 1) :
        /\ msgs[i + 1].type = "assistant"
        /\ ContainsAny(Lower(extract_text(msgs[i + 1])), SecretReadMarkers)}

\* second pass: credential_usage, the commands that match a credential pattern
credential_usage(msgs) ==
    Filter(extract_bash_commands(msgs), LAMBDA c : FirstCredentialPattern(c.cmd) > 0)

CredentialWindow == 20
SnippetBefore == 10
SnippetAfter == 30

\* mutant of has_secret_read: a secret read after the usage counts as well
has_secret_read_Symmetric(msgs, usage_idx) ==
    \E secret_idx \in kubectl_secret_indices(msgs) :
        (IF usage_idx >= secret_idx THEN usage_idx - secret_idx
                                    ELSE secret_idx - usage_idx) <= CredentialWindow

\* any(abs(usage_idx - secret_idx) <= 20 and secret_idx <= usage_idx ...)
has_secret_read(msgs, usage_idx) ==
    \E secret_idx \in kubectl_secret_indices(msgs) :
        /\ (IF usage_idx >= secret_idx THEN usage_idx - secret_idx
                                       ELSE secret_idx - usage_idx) <= CredentialWindow
        /\ secret_idx <= usage_idx

\* cmd[max(0, match.start()-10):min(len(cmd), match.end()+30)]
CredSnippet(cmd) ==
    LET m == SearchAssign(cmd, CREDENTIAL_PATTERNS[FirstCredentialPattern(cmd)])
        start == CharLen(SubSeq(cmd, 1, m[1] - 1))
        end == CharLen(SubSeq(cmd, 1, m[2]))
    IN  SliceChars(cmd, Max(0, start - SnippetBefore),
                   Min(CharLen(cmd), end + SnippetAfter))

CredentialWarning(usage) ==
    [ type |-> "CREDENTIAL_ASSUMPTION", severity |-> "HIGH",
      message_range |-> <<usage.idx>>,
      command |-> <<"Found: ">> \o CredSnippet(usage.cmd) \o <<"...">> ]

\* checker.py check_credential_usage
check_credential_usage(msgs) ==
    LET usages == credential_usage(msgs)
    IN  Flatten([k \in 1..Len(usages) |->
            IF has_secret_read(msgs, usages[k].idx) THEN <<>>
            ELSE <<CredentialWarning(usages[k])>>])


----------------------------------------------------------------------------
(* patterns.py find_credential_antipatterns *)

Quotes == {"\"", "'"}

\* the opening quote of  password\s*=\s*["']  started at piece i of the lowered
\* text t: its position, 0 when the text does not go on that way
QuoteAfterAssign(t, i) ==
    LET j == AssignEnd(t, i, <<"password">>)
        qs == {q \in (j + 1)..Len(t) :
                  /\ t[q] \in Quotes
                  /\ \A k \in (j + 1)..(q - 1) : IsSpace(t[k])}
    IN  IF j = 0 \/ qs = {} THEN 0 ELSE CHOOSE q \in qs : TRUE

\* re.search(r'password\s*=\s*["\'].*["\']', content, re.IGNORECASE):
\* an opening quote, then a closing quote later on the same line
HardcodedPasswordSearch(content) ==
    LET t == Lower(content)
    IN  \E i \in 1..Len(t) :
            LET q == QuoteAfterAssign(t, i)
            IN  /\ q > 0
                /\ \E r \in (q + 1)..Len(t) :
                      /\ t[r] \in Quotes
                      /\ \A k \in (q + 1)..(r - 1) : t[k] # "\n"

\* the end of a match of  password\s*=\s*["'][^"']+["']  started at piece i
\* (0 when none): the first quote after the opening one, if it is not adjacent
QuotedValueEnd(t, i) ==
    LET q == QuoteAfterAssign(t, i)
        rs == {r \in (q + 1)..Len(t) : t[r] \in Quotes}
    IN  IF q = 0 \/ rs = {} THEN 0
        ELSE LET r == CHOOSE x \in rs : \A y \in rs : x <= y
             IN  IF r >= q + 2 THEN r ELSE 0

\* re.findall(r'password\s*=\s*["\'][^"\']+["\']', content, re.IGNORECASE)
\* from piece `from` on: the non-overlapping matches, left to right
RECURSIVE HardcodedEvidence(_, _)
HardcodedEvidence(content, from) ==
    LET t == Lower(content)
        starts == {i \in from..Len(t) : QuotedValueEnd(t, i) > 0}
    IN  IF starts = {} THEN <<>>
        ELSE LET i == CHOOSE x \in starts : \A y \in starts : x <= y
                 r == QuotedValueEnd(t, i)
             IN  <<SubSeq(content, i, r)>> \o HardcodedEvidence(content, r + 1)

\* the keywords of pattern 2 (matched case-sensitively)
CredentialUseKeywords ==
    { <<"export">>, <<"DATA_PLANE_", "DB_", "PASSWORD">>, <<"DB_", "PASSWORD">> }

ContextChars == 300

\* pattern 2: PASSWORD used, no `kubectl get secret` in the same text
AssumedCredential(content) ==
    /\ Contains(content, <<"PASSWORD">>)
    /\ ~Contains(content, GetSecret)
    /\ ContainsAny(content, CredentialUseKeywords)

\* the findings of one assistant message (i its 0-based index); the opaque
\* timestamp field is left out
CredentialFindingsOf(msg, i) ==
    IF msg.type # "assistant" THEN <<>>
    ELSE LET content == extract_text(msg)
         IN  (IF HardcodedPasswordSearch(content)
              THEN << [ type |-> "HARDCODED_PASSWORD", index |-> i,
                        evidence |-> HardcodedEvidence(content, 1),
                        context |-> TakeChars(content, ContextChars) ] >>
              ELSE <<>>)
             \o
             (IF AssumedCredential(content)
              THEN << [ type |-> "ASSUMED_CREDENTIAL", index |-> i,
                        evidence |-> <<"Used PASSWORD env var without reading from secret">>,
                        context |-> TakeChars(content, ContextChars) ] >>
              ELSE <<>>)

\* patterns.py find_credential_antipatterns
find_credential_antipatterns(msgs) ==
    Flatten([i \in 1..Len(msgs) |-> CredentialFindingsOf(msgs[i], i - 1)])

----------------------------------------------------------------------------
(* Transcripts of the credential detectors: MaxCredLen messages, all but    *)
(* two of them plain user turns; one slot holds a credential usage, the    *)
(* other a (possible) secret read.                                         *)

MaxCredLen == 23

ExportPw == <<"export", " ", "DB_", "PASSWORD", "=", "hunter2">>
SetToken == <<"TOKEN", " ", "=", " ", "abc", " ", "make", " ", "deploy">>
ExportFromSecret ==
    <<"export", " ", "DB_", "PASSWORD", "=", "$(">> \o GetSecret
        \o <<" ", "db", " ", "-o", " ", "jsonpath", ")">>
GoOn == StrMsg("user", Phrase(<<"go", "on">>))

UsageAlphabet ==
    { ListMsg("assistant", <<BashItem(ExportPw)>>),
      ListMsg("assistant", <<BashItem(ExportPw), BashItem(SetToken)>>),
      \* the secret read announced in the text of the message that uses it
      ListMsg("assistant", <<TextItem(<<"ran", " ">> \o GetSecret), BashItem(ExportPw)>>),
      \* the usage is itself the secret read, as a command and as text
      ListMsg("assistant", <<BashItem(ExportFromSecret)>>),
      StrMsg("assistant", ExportFromSecret),
      \* a user turn cannot run a command
      ListMsg("user", <<BashItem(ExportPw)>>) }

MarkerAlphabet ==
    { StrMsg("assistant", <<"I", " ", "ran", " ">> \o GetSecret \o <<" ", "db">>),
      ListMsg("assistant", <<TextItem(Phrase(<<"Kubectl", "Get", "Secret", "db">>))>>),
      StrMsg("assistant", <<"grep", " ", "kubectl", ".*", "secret">>),
      StrMsg("user", <<"use", " ">> \o GetSecret),
      ListMsg("assistant", <<BashItem(GetSecret \o <<" ", "db">>)>>),
      ListMsg("assistant", <<BashItem(Phrase(<<"echo", "hi">>))>>),
      StrMsg("assistant", <<"export", " ", "PASSWORD", " ", "is", " ", "set">>),
      GoOn }

\* the usage lies at one end of the transcript, the other slot anywhere
UsagePositions == {1, 2, MaxCredLen - 1, MaxCredLen}

InitCred ==
    /\ \E u \in UsagePositions, s \in 1..MaxCredLen :
         \E usage \in UsageAlphabet, marker \in MarkerAlphabet :
            messages = [i \in 1..MaxCredLen |->
                          IF i = u THEN usage ELSE IF i = s THEN marker ELSE GoOn]
    /\ pc = {}
    /\ project = <<>>
    /\ report = <<>>
    /\ lines = <<>>
    /\ lookback = DefaultLookback
    /\ warnings = <<>>
    /\ findings = <<>>
    /\ total_rules = 0
    /\ violations = 0
    /\ compliance = 100

\* checker.py check_credential_usage(messages)
CheckCredentials ==
    /\ "check_credentials" \notin pc
    /\ warnings' = check_credential_usage(messages)
    /\ pc' = pc \cup {"check_credentials"}
    /\ UNCHANGED <<project, report, lines, lookback, messages, findings, total_rules, violations, compliance>>

\* patterns.py find_credential_antipatterns(messages)
FindCredentials ==
    /\ "find_credentials" \notin pc
    /\ findings' = find_credential_antipatterns(messages)
    /\ pc' = pc \cup {"find_credentials"}
    /\ UNCHANGED <<project, report, lines, lookback, messages, warnings, total_rules, violations, compliance>>

NextCred == CheckCredentials \/ FindCredentials

SpecCred == InitCred /\ [][NextCred]_vars


\* the number of Bash commands of message u (0-based) that match a credential
\* assignment pattern
CredCommandsAt(u) ==
    Count(extract_bash_commands(messages),
          LAMBDA c : c.idx = u /\ FirstCredentialPattern(c.cmd) > 0)

CredWarningsAt(u) ==
    Count(warnings,
          LAMBDA w : w.type = "CREDENTIAL_ASSUMPTION" /\ w.message_range = <<u>>)

\* an assistant message at s, u-20 <= s <= u, whose text holds one of markers
\* (compared without regard to case)
SecretReadNear(u, markers) ==
    \E s \in 0..(Len(messages) - 1) :
        /\ u - 20 <= s /\ s <= u
        /\ messages[s + 1].type = "assistant"
        /\ ContainsAny(Lower(extract_text(messages[s + 1])), markers)

IsSecretReadUsage(t) ==
    /\ FirstCredentialPattern(t) > 0
    /\ Contains(t, GetSecret)

\* C9: a credential usage that is itself a secret read produces no
\* credential-assumption finding: no ASSUMED_CREDENTIAL from
\* find_credential_antipatterns when it is assistant text, no
\* CREDENTIAL_ASSUMPTION from check_credential_usage when it is a Bash command.
C9_SecretReadUsageNotFlagged ==
    /\ "find_credentials" \in pc =>
          \A i \in DOMAIN messages :
              (messages[i].type = "assistant"
                  /\ IsSecretReadUsage(extract_text(messages[i])))
              => ~\E k \in DOMAIN findings :
                    /\ findings[k].type = "ASSUMED_CREDENTIAL"
                    /\ findings[k].index = i - 1
    /\ "check_credentials" \in pc =>
          \A k \in DOMAIN extract_bash_commands(messages) :
              LET c == extract_bash_commands(messages)[k]
              IN  IsSecretReadUsage(c.cmd) => CredWarningsAt(c.idx) = 0

----------------------------------------------------------------------------
(* Transcripts of find_credential_antipatterns for the literal assignments *)

MaxPasswordLen == 2

PasswordAlphabet ==
    { StrMsg("assistant", <<"PASSWORD", "=", "supersecret123">>),
      StrMsg("assistant", <<"set", " ", "password", " ", "=", " ", "\"", "abc", "\"">>),
      ListMsg("assistant", <<TextItem(<<"DB_", "PASSWORD", "=", "'", "x", "'">>),
                             BashItem(Phrase(<<"echo", "hi">>))>>),
      StrMsg("assistant", <<"password", "=", "\"", "a", "\"", "\n",
                            "PASSWORD", "=", "'", "b", "'">>),
      StrMsg("assistant", <<"password", "=", "\"", "\"">>),
      StrMsg("assistant", <<"password", "=", "\"", "abc">>),
      StrMsg("assistant", <<"password", "=", "\"", "a", "\n", "b", "\"">>),
      StrMsg("assistant", Phrase(<<"the", "password", "is", "secret">>)),
      StrMsg("user", <<"password", "=", "\"", "abc", "\"">>),
      StrMsg("assistant", ExportFromSecret),
      GoOn }

InitPassword ==
    /\ messages \in UNION { [1..n -> PasswordAlphabet] : n \in 1..MaxPasswordLen }
    /\ pc = {}
    /\ project = <<>>
    /\ report = <<>>
    /\ lines = <<>>
    /\ lookback = DefaultLookback
    /\ warnings = <<>>
    /\ findings = <<>>
    /\ total_rules = 0
    /\ violations = 0
    /\ compliance = 100

NextPassword == FindCredentials

SpecPassword == InitPassword /\ [][NextPassword]_vars

\* the text assigns a literal value, quoted or not, to a password key: after
\* password\s*=\s* comes a quote or a plain word (not a command substitution)
HasLiteralAssignment(content) ==
    LET t == Lower(content)
    IN  \E i \in 1..Len(t) :
            LET j == AssignEnd(t, i, <<"password">>)
                vs == {v \in (j + 1)..Len(t) : ~IsSpace(t[v])}
            IN  /\ j > 0
                /\ vs # {}
                /\ t[CHOOSE v \in vs : \A w \in vs : v <= w] # "$("

\* C8: every assistant message whose text contains a literal credential
\* assignment, quoted or unquoted, yields exactly one HARDCODED_PASSWORD
\* finding from find_credential_antipatterns, whatever else the transcript holds.
C8_LiteralAssignmentOneFinding ==
    "find_credentials" \in pc =>
        \A i \in DOMAIN messages :
            (messages[i].type = "assistant"
                /\ HasLiteralAssignment(extract_text(messages[i])))
            => Count(findings, LAMBDA f : f.type = "HARDCODED_PASSWORD"
                                          /\ f.index = i - 1) = 1


----------------------------------------------------------------------------
(* checker.py check_preflight_missing *)

\* A pattern is a sequence of literals, each with the gap the expression
\* allows before it: "none", "any" (.* : no newline) or "spaces" (\s+).
Lit(gap, pieces) == [gap |-> gap, lit |-> pieces]

\* the literal lies at piece p of t
LitAt(t, p, lit) ==
    p >= 1 /\ p + Len(lit) - 1 <= Len(t) /\ SubSeq(t, p, p + Len(lit) - 1) = lit

\* the rest of a pattern matches t from piece pos on
RECURSIVE MatchAt(_, _, _)
MatchAt(t, pos, pat) ==
    IF pat = <<>> THEN TRUE
    ELSE LET e == Head(pat)
         IN  \E p \in pos..Len(t) :
                /\ CASE e.gap = "none" -> p = pos
                     [] e.gap = "any" -> \A k \in pos..(p - 1) : t[k] # "\n"
                     [] e.gap = "spaces" ->
                            p > pos /\ \A k \in pos..(p - 1) : IsSpace(t[k])
                /\ LitAt(t, p, e.lit)
                /\ MatchAt(t, p + Len(e.lit), Tail(pat))

\* re.search(pattern, text, re.IGNORECASE)
Search(pat, text) == \E i \in 1..Len(text) : MatchAt(Lower(text), i, pat)

\* checker.py E2E_TEST_PATTERNS
E2E_TEST_PATTERNS ==
    << <<Lit("none", <<"pytest">>), Lit("any", <<"e2e">>)>>,
       <<Lit("none", <<"pytest">>), Lit("any", <<"integration">>)>>,
       <<Lit("none", <<"npx">>), Lit("spaces", <<"playwright">>)>>,
       <<Lit("none", <<"npm">>), Lit("any", <<"test">>), Lit("any", <<"e2e">>)>>,
       <<Lit("none", <<"npm">>), Lit("any", <<"test">>), Lit("any", <<"integration">>)>>,
       <<Lit("none", <<"npm">>), Lit("spaces", <<"run">>),
         Lit("spaces", <<"test", ":", "e2e">>)>>,
       <<Lit("none", <<"npm">>), Lit("spaces", <<"run">>),
         Lit("spaces", <<"test", ":", "integration">>)>> >>

\* the command matches some pattern of E2E_TEST_PATTERNS
IsE2ETest(cmd) == \E k \in DOMAIN E2E_TEST_PATTERNS : Search(E2E_TEST_PATTERNS[k], cmd)

\* test_indices: the end-to-end / integration test commands
test_indices(msgs) ==
    Filter(extract_bash_commands(msgs), LAMBDA c : IsE2ETest(c.cmd))

\* the keyword list of check_preflight_missing
PreflightKeywords ==
    { Phrase(<<"kubectl", "get", "pods">>), Phrase(<<"kubectl", "get", "svc">>),
      Phrase(<<"docker", "ps">>), <<"curl">>, <<"health">>, <<"preflight">> }

\* preflight_indices (0-based): assistant messages whose text has a keyword
preflight_indices(msgs) ==
    {i \in 0..(Len(msgs) - 1) :
        /\ msgs[i + 1].type = "assistant"
        /\ ContainsAny(Lower(extract_text(msgs[i + 1])), PreflightKeywords)}

PreflightWindow == 10
TestDisplayChars == 60

\* mutant of has_preflight: a keyword in the test's own message counts
has_preflight_Inclusive(msgs, test_idx) ==
    \E pre_idx \in preflight_indices(msgs) :
        /\ (IF test_idx >= pre_idx THEN test_idx - pre_idx
                                   ELSE pre_idx - test_idx) <= PreflightWindow
        /\ pre_idx <= test_idx

\* any(abs(test_idx - pre_idx) <= 10 and pre_idx < test_idx ...)
has_preflight(msgs, test_idx) ==
    \E pre_idx \in preflight_indices(msgs) :
        /\ (IF test_idx >= pre_idx THEN test_idx - pre_idx
                                   ELSE pre_idx - test_idx) <= PreflightWindow
        /\ pre_idx < test_idx

\* the test type shown in the warning
TestType(test_cmd) ==
    IF Contains(Lower(test_cmd), <<"playwright">>) THEN "Playwright E2E"
    ELSE IF Contains(Lower(test_cmd), <<"integration">>) THEN "Integration test"
    ELSE "E2E test"

PreflightWarning(test) ==
    [ type |-> "MISSING_PREFLIGHT", severity |-> "HIGH",
      message_range |-> <<test.idx>>,
      command |-> <<TestType(test.cmd), ": ">>
                    \o TakeChars(test.cmd, TestDisplayChars) \o <<"...">> ]

\* checker.py check_preflight_missing
check_preflight_missing(msgs) ==
    LET tests == test_indices(msgs)
    IN  Flatten([k \in 1..Len(tests) |->
            IF has_preflight(msgs, tests[k].idx) THEN <<>>
            ELSE <<PreflightWarning(tests[k])>>])

----------------------------------------------------------------------------
(* Transcripts of the preflight detector: MaxPreflightLen messages, one     *)
(* slot for a test run, one for a (possible) preflight check.              *)

MaxPreflightLen == 13

PytestE2E == <<"pytest", " ", "tests/", "e2e", "/test_login.py">>
PytestUnit == Phrase(<<"pytest", "tests/unit">>)
Playwright == Phrase(<<"npx", "playwright", "test">>)
NpmIntegration == <<"npm", " ", "run", " ", "test", ":", "integration">>

TestAlphabet ==
    { ListMsg("assistant", <<BashItem(PytestE2E)>>),
      ListMsg("assistant", <<BashItem(Playwright), BashItem(PytestUnit)>>),
      \* the keyword in the text of the message that runs the test
      ListMsg("assistant", <<TextItem(Phrase(<<"health", "looks", "fine">>)),
                             BashItem(NpmIntegration)>>),
      ListMsg("assistant", <<BashItem(<<"Pytest", " ", "-k", " ", "E2E">>)>>),
      ListMsg("assistant", <<BashItem(PytestUnit)>>),
      ListMsg("user", <<BashItem(PytestE2E)>>) }

PreflightAlphabet ==
    { StrMsg("assistant", Phrase(<<"curl", "localhost:8080/", "health">>)),
      ListMsg("assistant", <<TextItem(Phrase(<<"Health", "is", "ok">>))>>),
      StrMsg("assistant", Phrase(<<"kubectl", "get", "pods", "-A">>)),
      \* the check run as a tool call, no text
      ListMsg("assistant", <<BashItem(Phrase(<<"curl", "localhost">>))>>),
      \* the user reports the check
      StrMsg("user", Phrase(<<"health", "check", "passed">>)),
      GoOn }

TestPositions == {1, 2, MaxPreflightLen - 1, MaxPreflightLen}

InitPreflight ==
    /\ \E t \in TestPositions, p \in 1..MaxPreflightLen :
         \E test \in TestAlphabet, pre \in PreflightAlphabet :
            messages = [i \in 1..MaxPreflightLen |->
                          IF i = t THEN test ELSE IF i = p THEN pre ELSE GoOn]
    /\ pc = {}
    /\ project = <<>>
    /\ report = <<>>
    /\ lines = <<>>
    /\ lookback = DefaultLookback
    /\ warnings = <<>>
    /\ findings = <<>>
    /\ total_rules = 0
    /\ violations = 0
    /\ compliance = 100

\* checker.py check_preflight_missing(messages)
CheckPreflight ==
    /\ "check_preflight" \notin pc
    /\ warnings' = check_preflight_missing(messages)
    /\ pc' = pc \cup {"check_preflight"}
    /\ UNCHANGED <<project, report, lines, lookback, messages, findings, total_rules, violations, compliance>>

NextPreflight == CheckPreflight

SpecPreflight == InitPreflight /\ [][NextPreflight]_vars

E2ECommandsAt(t) ==
    Count(extract_bash_commands(messages), LAMBDA c : c.idx = t /\ IsE2ETest(c.cmd))

PreflightWarningsAt(t) ==
    Count(warnings, LAMBDA w : w.type = "MISSING_PREFLIGHT" /\ w.message_range = <<t>>)

\* a message at p, t-10 <= p < t, of one of the roles, whose text holds a
\* preflight keyword (compared without regard to case)
PreflightNear(t, roles) ==
    \E p \in 0..(Len(messages) - 1) :
        /\ t - 10 <= p /\ p < t
        /\ messages[p + 1].type \in roles
        /\ ContainsAny(Lower(extract_text(messages[p + 1])), PreflightKeywords)

----------------------------------------------------------------------------
(* patterns.py find_scope_creep *)

\* str.split(sep) for a one-piece separator: the texts between the separators
RECURSIVE SplitOn(_, _, _)
SplitOn(t, sep, cur) ==
    IF t = <<>> THEN <<cur>>
    ELSE IF Head(t) = sep THEN <<cur>> \o SplitOn(Tail(t), sep, <<>>)
    ELSE SplitOn(Tail(t), sep, Append(cur, Head(t)))

\* expansion_indicators, in the order of the list
expansion_indicators ==
    << Phrase(<<"also", "create">>), Phrase(<<"also", "build">>),
       Phrase(<<"also", "implement">>), Phrase(<<"also", "add">>),
       Phrase(<<"we", "should", "also">>), Phrase(<<"let", "me", "also">>),
       <<"additionally">>,
       Phrase(<<"I", "will", "also">>), Phrase(<<"we", "need", "to", "also">>) >>

RequestChars == 200
ExpansionChars == 300

\* the findings appended for one indicator: one for each sentence of the
\* content whose lowered text holds the indicator
ScopeFindingsOfIndicator(content, indicator, request, request_idx, i) ==
    IF ~Contains(Lower(content), indicator) THEN <<>>
    ELSE LET sentences == SplitOn(content, ".", <<>>)
         IN  Flatten([k \in 1..Len(sentences) |->
                 IF Contains(Lower(sentences[k]), indicator)
                 THEN << [ type |-> "SCOPE_EXPANSION",
                           original_request |-> TakeChars(request, RequestChars),
                           expansion |-> TakeChars(Strip(sentences[k]), ExpansionChars),
                           request_index |-> request_idx,
                           expansion_index |-> i ] >>
                 ELSE <<>>])

\* the findings of one assistant message: the loop over expansion_indicators
ScopeFindingsOf(content, request, request_idx, i) ==
    Flatten([n \in 1..Len(expansion_indicators) |->
        ScopeFindingsOfIndicator(content, expansion_indicators[n],
                                 request, request_idx, i)])

\* mutant of ScopeScan: the first request is kept when a later user message
\* arrives
RECURSIVE ScopeScan_KeepFirst(_, _, _, _)
ScopeScan_KeepFirst(msgs, pos, request, request_idx) ==
    IF pos > Len(msgs) THEN <<>>
    ELSE IF msgs[pos].type = "user" /\ request = <<>>
         THEN ScopeScan_KeepFirst(msgs, pos + 1, extract_text(msgs[pos]), pos - 1)
    ELSE IF msgs[pos].type = "assistant" /\ request # <<>>
         THEN ScopeFindingsOf(extract_text(msgs[pos]), request, request_idx, pos - 1)
                 \o ScopeScan_KeepFirst(msgs, pos + 1, request, request_idx)
    ELSE ScopeScan_KeepFirst(msgs, pos + 1, request, request_idx)

\* the loop over the messages from position pos on (pos is 1-based, the code's
\* index is pos - 1); request is current_request (<<>> for None and for the
\* empty string, both false in the code's test), request_idx its index
RECURSIVE ScopeScan(_, _, _, _)
ScopeScan(msgs, pos, request, request_idx) ==
    IF pos > Len(msgs) THEN <<>>
    ELSE IF msgs[pos].type = "user"
         THEN ScopeScan(msgs, pos + 1, extract_text(msgs[pos]), pos - 1)
    ELSE IF msgs[pos].type = "assistant" /\ request # <<>>
         THEN ScopeFindingsOf(extract_text(msgs[pos]), request, request_idx, pos - 1)
                 \o ScopeScan(msgs, pos + 1, request, request_idx)
    ELSE ScopeScan(msgs, pos + 1, request, request_idx)

\* patterns.py find_scope_creep
find_scope_creep(msgs) == ScopeScan(msgs, 1, <<>>, -1)

----------------------------------------------------------------------------
(* Transcripts of find_scope_creep *)

MaxScopeLen == 3

ScopeAlphabet ==
    { StrMsg("user", Phrase(<<"rename", "this", "function">>)),
      StrMsg("user", <<>>),
      StrMsg("assistant",
             <<"I'll", " ", "rename", " ", "it", ".", " ", "I", " ", "will", " ",
               "also", " ", "refactor", " ", "the", " ", "module", ".">>),
      StrMsg("assistant",
             <<"Done", ".", " ", "Let", " ", "me", " ", "also", " ", "add", " ",
               "tests", ".", " ", "Additionally", " ", "docs", ".">>),
      ListMsg("assistant",
              <<TextItem(Phrase(<<"we", "need", "to", "also", "build", "a", "cache">>)),
                BashItem(Phrase(<<"make", "cache">>))>>),
      StrMsg("assistant", <<"Renamed", " ", "it", ".">>),
      ListMsg("assistant", <<BashItem(Phrase(<<"git", "status">>))>>) }

InitScope ==
    /\ messages \in UNION { [1..n -> ScopeAlphabet] : n \in 0..MaxScopeLen }
    /\ pc = {}
    /\ project = <<>>
    /\ report = <<>>
    /\ lines = <<>>
    /\ lookback = DefaultLookback
    /\ warnings = <<>>
    /\ findings = <<>>
    /\ total_rules = 0
    /\ violations = 0
    /\ compliance = 100

\* patterns.py find_scope_creep(messages)
FindScopeCreep ==
    /\ "find_scope_creep" \notin pc
    /\ findings' = find_scope_creep(messages)
    /\ pc' = pc \cup {"find_scope_creep"}
    /\ UNCHANGED <<project, report, lines, lookback, messages, warnings, total_rules, violations, compliance>>

NextScope == FindScopeCreep

SpecScope == InitScope /\ [][NextScope]_vars

\* the user messages before position pos (1-based)
UsersBefore(pos) == {q \in 1..(pos - 1) : messages[q].type = "user"}

\* the assistant message at pos follows a non-empty user request
FollowsRequest(pos) ==
    /\ messages[pos].type = "assistant"
    /\ UsersBefore(pos) # {}
    /\ extract_text(messages[CHOOSE q \in UsersBefore(pos) :
                                 \A r \in UsersBefore(pos) : r <= q]) # <<>>

\* the sentence contains an expansion indicator, capitals disregarded
HasIndicator(sentence) ==
    \E n \in DOMAIN expansion_indicators :
        Contains(Lower(sentence), Lower(expansion_indicators[n]))

\* C10: for an assistant message that follows a non-empty user request,
\* find_scope_creep emits exactly one SCOPE_EXPANSION finding per sentence that
\* contains at least one expansion indicator (including 'I will also'), with
\* that sentence as the evidence; a sentence with several indicators is
\* reported once, a sentence with none never.
C10_OneFindingPerExpansionSentence ==
    "find_scope_creep" \in pc =>
        \A pos \in DOMAIN messages :
            FollowsRequest(pos) =>
                LET sentences == SplitOn(extract_text(messages[pos]), ".", <<>>)
                IN  \A k \in DOMAIN sentences :
                        Count(findings,
                              LAMBDA f : /\ f.type = "SCOPE_EXPANSION"
                                         /\ f.expansion_index = pos - 1
                                         /\ f.expansion = Strip(sentences[k]))
                          = IF HasIndicator(sentences[k]) THEN 1 ELSE 0


\* C11: every SCOPE_EXPANSION finding has request_index < expansion_index,
\* request_index is the index of the latest user message before
\* expansion_index, the message at expansion_index is an assistant message, and
\* no finding is produced for an assistant message that precedes the first
\* user message.
C11_RequestIsLatestUserMessage ==
    "find_scope_creep" \in pc =>
        \A k \in DOMAIN findings :
            LET r == findings[k].request_index
                x == findings[k].expansion_index
            IN  /\ 0 <= r /\ r < x /\ x < Len(messages)
                /\ messages[x + 1].type = "assistant"
                /\ messages[r + 1].type = "user"
                /\ \A q \in (r + 1)..(x - 1) : messages[q + 1].type # "user"
                /\ findings[k].original_request = extract_text(messages[r + 1])

\* a finding whose request is the second of two user messages
C11_Witness ==
    /\ "find_scope_creep" \in pc
    /\ \E k \in DOMAIN findings :
          /\ findings[k].request_index = 1
          /\ messages[1].type = "user"
          /\ extract_text(messages[1]) # <<>>



-----------------------------------------------------------------------------
(* Tool opportunities (patterns.py find_tool_opportunities) *)

\* mutant of SelectSort: equal ranks in descending index order
RECURSIVE SelectSort_TiesReversed(_, _)
SelectSort_TiesReversed(rank, left) ==
    IF left = {} THEN <<>>
    ELSE LET i == CHOOSE i \in left :
                     \A j \in left : rank[i] < rank[j] \/ (rank[i] = rank[j] /\ i >= j)
         IN  <<i>> \o SelectSort_TiesReversed(rank, left \ {i})

\* the indices of rank in ascending order of rank, equal ranks in index order:
\* the order Python's sorted() gives (a stable sort)
RECURSIVE SelectSort(_, _)
SelectSort(rank, left) ==
    IF left = {} THEN <<>>
    ELSE LET i == CHOOSE i \in left :
                     \A j \in left : rank[i] < rank[j] \/ (rank[i] = rank[j] /\ i <= j)
         IN  <<i>> \o SelectSort(rank, left \ {i})

\* sorted(s, key = rank of the element's position)
StableSort(s, rank) == [k \in 1..Len(s) |-> s[SelectSort(rank, DOMAIN s)[k]]]

\* collections.Counter over the elements of s: the distinct elements in order
\* of first insertion, each with its count
CounterOf(s) ==
    LET keys == Dedup(s, {})
    IN  [k \in 1..Len(keys) |->
            [key |-> keys[k], count |-> Cardinality({i \in DOMAIN s : s[i] = keys[k]})]]

\* Counter.most_common(n): by descending count, ties in insertion order
most_common(s, n) ==
    LET c == CounterOf(s)
    IN  SubSeq(StableSort(c, [k \in 1..Len(c) |-> 0 - c[k].count]), 1, Min(n, Len(c)))

\* patterns.py:260-263: the Bash commands of a list-content message
CmdsOf(msg) ==
    LET bash == Filter(msg.items, LAMBDA it : it.name = "Bash")
    IN  [k \in 1..Len(bash) |-> bash[k].command]

\* patterns.py:252-270, the loop from position pos on: a message that is not
\* an assistant message or whose content is not a list is passed over; nothing
\* is appended after the loop
RECURSIVE ToolScan(_, _, _, _)
ToolScan(msgs, pos, current_sequence, sequences) ==
    IF pos > Len(msgs) THEN sequences
    ELSE IF msgs[pos].type # "assistant" \/ msgs[pos].shape # "list"
         THEN ToolScan(msgs, pos + 1, current_sequence, sequences)
    ELSE IF CmdsOf(msgs[pos]) # <<>>
         THEN ToolScan(msgs, pos + 1, current_sequence \o CmdsOf(msgs[pos]), sequences)
    ELSE ToolScan(msgs, pos + 1, <<>>,
                  IF Len(current_sequence) >= 2
                  THEN Append(sequences, current_sequence) ELSE sequences)

ToolSequences(msgs) == ToolScan(msgs, 1, <<>>, <<>>)

SeqKeyChars == 200
TopSequences == 10

\* ' && '.join(seq)
SeqKey(seq) == Join(" && ", seq)

\* patterns.py:275-279: the keys that are counted
SeqKeys(sequences) ==
    LET keys == [k \in 1..Len(sequences) |-> SeqKey(sequences[k])]
    IN  Filter(keys, LAMBDA key : CharLen(key) < SeqKeyChars)

\* patterns.py:281-287: opportunities['repeated_sequences'] (tool_name left out)
RepeatedSequences(sequences) ==
    LET top == most_common(SeqKeys(sequences), TopSequences)
        rep == Filter(top, LAMBDA e : e.count >= 2)
    IN  [k \in 1..Len(rep) |-> [sequence |-> rep[k].key, count |-> rep[k].count]]

find_tool_opportunities(msgs) == RepeatedSequences(ToolSequences(msgs))

MaxToolLen == 4

MakeBuild == Phrase(<<"make", "build">>)
MakeTest == Phrase(<<"make", "test">>)
\* a command of 100 characters (two of them joined make a key of 204)
LongCommand == <<"sh", " ", "find src -name '*.py' -newer build/stamp -exec python -m compileall -q {} +......................">>

ToolAlphabet ==
    { ListMsg("assistant", <<BashItem(MakeBuild)>>),
      ListMsg("assistant", <<BashItem(MakeTest)>>),
      ListMsg("assistant", <<BashItem(MakeBuild), BashItem(MakeTest)>>),
      ListMsg("assistant", <<BashItem(LongCommand), BashItem(LongCommand)>>),
      ListMsg("assistant", <<TextItem(Phrase(<<"all", "built">>))>>),
      StrMsg("assistant", Phrase(<<"all", "built">>)),
      GoOn }

InitTools ==
    /\ messages \in UNION {[1..n -> ToolAlphabet] : n \in 0..MaxToolLen}
    /\ pc = {}
    /\ project = <<>>
    /\ report = <<>>
    /\ lines = <<>>
    /\ lookback = DefaultLookback
    /\ warnings = <<>>
    /\ findings = <<>>
    /\ total_rules = 0
    /\ violations = 0
    /\ compliance = 100

FindToolOpportunities ==
    /\ "find_tool_opportunities" \notin pc
    /\ findings' = find_tool_opportunities(messages)
    /\ pc' = pc \cup {"find_tool_opportunities"}
    /\ UNCHANGED <<project, report, lines, lookback, messages, warnings, total_rules, violations, compliance>>

NextTools == FindToolOpportunities

SpecTools == InitTools /\ [][NextTools]_vars

\* an assistant message that holds no Bash command, whatever its content
NonCommandTurn(msg) ==
    msg.type = "assistant" /\ (msg.shape = "str" \/ CmdsOf(msg) = <<>>)

\* an assistant message whose content is a list without a Bash command
ListNonCommandTurn(msg) ==
    msg.type = "assistant" /\ msg.shape = "list" /\ CmdsOf(msg) = <<>>

\* the commands of the messages i..j, in order
CommandsIn(i, j) ==
    Flatten([q \in 1..(j - i + 1) |-> 
                IF messages[i + q - 1].type = "assistant" /\ messages[i + q - 1].shape = "list"
                THEN CmdsOf(messages[i + q - 1]) ELSE <<>>])

\* the maximal runs of the transcript: the intervals i..j without a
\* list-content assistant message lacking Bash, bounded on each side by such a
\* message or by an end of the transcript, that hold two or more commands
MaximalRuns ==
    { r \in (1..Len(messages)) \X (1..Len(messages)) :
        /\ r[1] <= r[2]
        /\ \A q \in r[1]..r[2] : ~ListNonCommandTurn(messages[q])
        /\ r[1] = 1 \/ ListNonCommandTurn(messages[r[1] - 1])
        /\ r[2] = Len(messages) \/ ListNonCommandTurn(messages[r[2] + 1])
        /\ Len(CommandsIn(r[1], r[2])) >= 2 }

RunsWithKey(key) == { r \in MaximalRuns : SeqKey(CommandsIn(r[1], r[2])) = key }

\* C12: every maximal run of two or more consecutive Bash commands is counted,
\* also one that ends the transcript: a sequence key shorter than 200
\* characters that occurs as k >= 2 runs is reported once, with count k.
C12_EveryMaximalRunCounted ==
    "find_tool_opportunities" \in pc =>
        \A r \in MaximalRuns :
            LET key == SeqKey(CommandsIn(r[1], r[2]))
                k == Cardinality(RunsWithKey(key))
            IN  (CharLen(key) < SeqKeyChars /\ k >= 2) =>
                    Cardinality({e \in DOMAIN findings :
                                    findings[e] = [sequence |-> key, count |-> k]}) = 1

\* the same with the run that ends the transcript left out
C12_Interior ==
    "find_tool_opportunities" \in pc =>
        \A r \in {m \in MaximalRuns : m[2] < Len(messages)} :
            LET key == SeqKey(CommandsIn(r[1], r[2]))
                k == Cardinality({m \in RunsWithKey(key) : m[2] < Len(messages)})
            IN  (CharLen(key) < SeqKeyChars /\ k >= 2) =>
                    Cardinality({e \in DOMAIN findings :
                                    findings[e] = [sequence |-> key, count |-> k]}) = 1

\* C13: every assistant message without a Bash command ends the current run,
\* whether its content is a string or a list: each sequence is the commands of
\* an interval of messages that holds no such message.
C13_NonCommandTurnEndsRun ==
    "find_tool_opportunities" \in pc =>
        \A s \in DOMAIN ToolSequences(messages) :
            \E i, j \in 1..Len(messages) :
                /\ i <= j
                /\ CommandsIn(i, j) = ToolSequences(messages)[s]
                /\ \A q \in i..j : ~NonCommandTurn(messages[q])

\* the same for list-content messages only
C13_ListTurnEndsRun ==
    "find_tool_opportunities" \in pc =>
        \A s \in DOMAIN ToolSequences(messages) :
            \E i, j \in 1..Len(messages) :
                /\ i <= j
                /\ CommandsIn(i, j) = ToolSequences(messages)[s]
                /\ \A q \in i..j : ~ListNonCommandTurn(messages[q])

ToolsReported ==
    "find_tool_opportunities" \in pc /\ findings # <<>>



-----------------------------------------------------------------------------
(* Repeated single commands (analyzer.py analyze_tool_use and the Tool       *)
(* Opportunities section of generate_report.py)                              *)

\* generate_report.py NORMAL_DEV_COMMANDS
NORMAL_DEV_COMMANDS ==
    { Phrase(<<"git", "status">>), Phrase(<<"git", "diff">>), Phrase(<<"git", "log">>),
      Phrase(<<"git", "add">>), Phrase(<<"git", "commit">>),
      <<"ls">>, <<"pwd">>, <<"cd">>, <<"cat">>, <<"echo">> }

\* generate_report.py NORMAL_TEST_COMMANDS
NORMAL_TEST_COMMANDS ==
    { <<"pytest">>, Phrase(<<"python", "-m", "pytest">>), Phrase(<<"npm", "test">>),
      Phrase(<<"npm", "run", "test">>), Phrase(<<"go", "test">>),
      Phrase(<<"cargo", "test">>) }

\* generate_report.py is_normal_dev_command
is_normal_dev_command(cmd) ==
    \/ \E normal_cmd \in NORMAL_DEV_COMMANDS : StartsWith(Strip(Lower(cmd)), normal_cmd)
    \/ \E test_cmd \in NORMAL_TEST_COMMANDS : StartsWith(Strip(Lower(cmd)), test_cmd)

\* analyzer.py analyze_tool_use over the assistant messages of the transcript:
\* the Bash commands in the order in which repeated_commands counts them
analyze_tool_use(msgs) ==
    LET bash == Flatten([i \in 1..Len(msgs) |->
                    IF msgs[i].type = "assistant" /\ msgs[i].shape = "list"
                    THEN CmdsOf(msgs[i]) ELSE <<>>])
    IN  bash

TopCommands == 10
MinRepeats == 3

\* generate_report.py:326-330: the (cmd, count) pairs listed in the section
actionable_tool_opps(msgs) ==
    LET top == most_common(analyze_tool_use(msgs), TopCommands)
        act == Filter(top, LAMBDA e : e.count >= MinRepeats /\ ~is_normal_dev_command(e.key))
    IN  [k \in 1..Len(act) |-> [command |-> act[k].key, count |-> act[k].count]]

MaxCommandLen == 6

Steps == <<"lint", "build", "unit", "pack", "sign", "push", "tag", "sync", "scan", "docs">>
DeployStaging == Phrase(<<"./deploy.sh", "staging">>)
GitStatus == Phrase(<<"git", "status">>)
LsLa == <<" ", "LS", " ", "-la">>

CommandAlphabet ==
    { \* ten different make targets in one message
      ListMsg("assistant", [i \in 1..Len(Steps) |-> BashItem(Phrase(<<"make", Steps[i]>>))]),
      ListMsg("assistant", <<BashItem(DeployStaging)>>),
      ListMsg("assistant", <<BashItem(GitStatus), BashItem(PytestFoo)>>),
      ListMsg("assistant", <<BashItem(LsLa), TextItem(Phrase(<<"all", "built">>))>>),
      GoOn }

InitCommands ==
    /\ messages \in UNION {[1..n -> CommandAlphabet] : n \in 0..MaxCommandLen}
    /\ pc = {}
    /\ project = <<>>
    /\ report = <<>>
    /\ lines = <<>>
    /\ lookback = DefaultLookback
    /\ warnings = <<>>
    /\ findings = <<>>
    /\ total_rules = 0
    /\ violations = 0
    /\ compliance = 100

ReportToolOpportunities ==
    /\ "generate_markdown_report" \notin pc
    /\ findings' = actionable_tool_opps(messages)
    /\ pc' = pc \cup {"generate_markdown_report"}
    /\ UNCHANGED <<project, report, lines, lookback, messages, warnings, total_rules, violations, compliance>>

NextCommands == ReportToolOpportunities

SpecCommands == InitCommands /\ [][NextCommands]_vars

\* how often cmd occurs as a Bash command of the transcript
Occurrences(cmd) ==
    Cardinality({i \in DOMAIN analyze_tool_use(messages) : analyze_tool_use(messages)[i] = cmd})

\* cmd starts with a normal-dev or test prefix
HasNormalPrefix(cmd) ==
    \E prefix \in NORMAL_DEV_COMMANDS \cup NORMAL_TEST_COMMANDS :
        StartsWith(Strip(Lower(cmd)), prefix)

Listed(cmd) == \E e \in DOMAIN findings : findings[e].command = cmd

\* C14: every Bash command that occurs at least 3 times and does not start
\* with a normal-dev or test prefix is listed in the Tool Opportunities
\* section, however many other commands are repeated; a command that starts
\* with such a prefix is never listed.
C14_EveryRepeatedCommandListed ==
    "generate_markdown_report" \in pc =>
        \A cmd \in Range(analyze_tool_use(messages)) :
            /\ (Occurrences(cmd) >= MinRepeats /\ ~HasNormalPrefix(cmd)) => Listed(cmd)
            /\ HasNormalPrefix(cmd) => ~Listed(cmd)

\* the same for transcripts with at most ten different commands
C14_UpToTenCommands ==
    ("generate_markdown_report" \in pc
        /\ Cardinality(Range(analyze_tool_use(messages))) <= TopCommands) =>
        \A cmd \in Range(analyze_tool_use(messages)) :
            /\ (Occurrences(cmd) >= MinRepeats /\ ~HasNormalPrefix(cmd)) => Listed(cmd)
            /\ HasNormalPrefix(cmd) => ~Listed(cmd)

CommandsListed ==
    "generate_markdown_report" \in pc /\ Listed(DeployStaging) /\ Occurrences(GitStatus) >= 3



-----------------------------------------------------------------------------
(* checker.py generate_report: the listing of the warnings *)

\* severity_order.get(w['severity'], 3)
severity_order(severity) ==
    CASE severity = "HIGH" -> 0
      [] severity = "MEDIUM" -> 1
      [] severity = "LOW" -> 2
      [] OTHER -> 3

\* checker.py:345 sorted_warnings
sorted_warnings(ws) ==
    StableSort(ws, [k \in 1..Len(ws) |-> severity_order(ws[k].severity)])

\* checker.py check_tool_discovery's warning for a transcript of n messages
ToolDiscoveryWarning(n) ==
    [ type |-> "TOOL_DISCOVERY_GAP", severity |-> "LOW",
      message_range |-> <<0, n>>, command |-> <<"N/A">> ]

MaxWarnings == 4
ToolDiscoveryMin == 50

\* warnings as the detectors produce them
SampleWarnings ==
    { RetryWarning([idx |-> 0, cmd |-> ApplyA], [idx |-> 1, cmd |-> ApplyA]),
      RetryWarning([idx |-> 2, cmd |-> HelmUp], [idx |-> 3, cmd |-> HelmUp]),
      PreflightWarning([idx |-> 4, cmd |-> PytestE2E]),
      CredentialWarning([idx |-> 5, cmd |-> ExportPw]),
      ToolDiscoveryWarning(ToolDiscoveryMin) }

InitReport ==
    /\ messages = <<>>
    /\ pc = {}
    /\ project = <<>>
    /\ report = <<>>
    /\ lines = <<>>
    /\ lookback = DefaultLookback
    /\ warnings \in UNION {[1..n -> SampleWarnings] : n \in 0..MaxWarnings}
    /\ findings = <<>>
    /\ total_rules \in {0, MaxRules}
    /\ violations = 0
    /\ compliance = 100

\* checker.py generate_report: findings holds the warnings in the order in
\* which the report lists them
GenerateReport ==
    /\ "generate_report" \notin pc
    /\ findings' = sorted_warnings(warnings)
    /\ violations' = Len(warnings)
    /\ compliance' = CheckerCompliance(total_rules, Len(warnings))
    /\ pc' = pc \cup {"generate_report"}
    /\ UNCHANGED <<project, report, lines, lookback, messages, warnings, total_rules>>

NextReport == GenerateReport

SpecReport == InitReport /\ [][NextReport]_vars

OfSeverity(ws, severity) == Filter(ws, LAMBDA w : w.severity = severity)

\* C15: the report lists every HIGH warning before every MEDIUM and every
\* MEDIUM before every LOW, warnings of equal severity keep the order in which
\* the detectors produced them, and the listed warnings are a permutation of
\* the input warnings.
C15_SortedStablePermutation ==
    "generate_report" \in pc =>
        /\ Len(findings) = Len(warnings)
        /\ \A i, j \in DOMAIN findings :
              i < j => severity_order(findings[i].severity)
                          <= severity_order(findings[j].severity)
        /\ \A severity \in {"HIGH", "MEDIUM", "LOW"} :
              OfSeverity(findings, severity) = OfSeverity(warnings, severity)

\* a MEDIUM warning produced before a HIGH one, and two different warnings of
\* one severity
C15_Witness ==
    /\ "generate_report" \in pc
    /\ \E i, j \in DOMAIN warnings :
          i < j /\ warnings[i].severity = "MEDIUM" /\ warnings[j].severity = "HIGH"
    /\ \E i, j \in DOMAIN warnings :
          i < j /\ warnings[i].severity = warnings[j].severity /\ warnings[i] # warnings[j]
    /\ \E i \in DOMAIN warnings : warnings[i].severity = "LOW"
    /\ findings # warnings



-----------------------------------------------------------------------------
(* checker.py main: the detectors over the recent and the full transcript *)

RecentMessages == 50

\* all_messages[-50:] if len(all_messages) > 50 else all_messages
recent_messages(all_messages) ==
    IF Len(all_messages) > RecentMessages
    THEN SubSeq(all_messages, Len(all_messages) - RecentMessages + 1, Len(all_messages))
    ELSE all_messages

\* the keyword list of check_tool_discovery
ToolDiscoveryKeywords ==
    { Phrase(<<"ls", "~/.local/bin">>), Phrase(<<"ls", "./scripts">>),
      Phrase(<<"cat", "tools.md">>) }

\* mutant of check_tool_discovery: a keyword in a message of any role counts
check_tool_discovery_AnyRole(msgs) ==
    IF Len(msgs) < ToolDiscoveryMin THEN <<>>
    ELSE IF \E i \in DOMAIN msgs :
                ContainsAny(Lower(extract_text(msgs[i])), ToolDiscoveryKeywords)
         THEN <<>>
    ELSE <<ToolDiscoveryWarning(Len(msgs))>>

\* checker.py check_tool_discovery
check_tool_discovery(msgs) ==
    IF Len(msgs) < ToolDiscoveryMin THEN <<>>
    ELSE IF \E i \in DOMAIN msgs :
                /\ msgs[i].type = "assistant"
                /\ ContainsAny(Lower(extract_text(msgs[i])), ToolDiscoveryKeywords)
         THEN <<>>
    ELSE <<ToolDiscoveryWarning(Len(msgs))>>

\* a record whose 'message' key is absent: .get('message', {}) gives {}
NoMessage(role) == [type |-> role, shape |-> "missing", text |-> <<>>, items |-> <<>>]
\* a record whose 'message' is not a mapping (a string, a list, null)
BadMessage(role) == [type |-> role, shape |-> "notmapping", text |-> <<>>, items |-> <<>>]
\* a Bash tool call whose 'input' is not a mapping
BadInputItem ==
    [type |-> "tool_use", name |-> "Bash", text |-> <<>>, command |-> <<>>,
     input |-> "notmapping"]

HasBadInput(item) == "input" \in DOMAIN item

\* checker.py:82 and :87: extract_bash_commands raises AttributeError on an
\* assistant record whose message is not a mapping and on a Bash item whose
\* input is not a mapping
ExtractRaises(msgs) ==
    \E i \in DOMAIN msgs :
        /\ msgs[i].type = "assistant"
        /\ \/ msgs[i].shape = "notmapping"
           \/ /\ msgs[i].shape = "list"
              /\ \E k \in DOMAIN msgs[i].items :
                    msgs[i].items[k].name = "Bash" /\ HasBadInput(msgs[i].items[k])

\* checker.py:421-431: the merged list, in the order of the extend calls
MainWarnings(all_messages) ==
    check_retry_without_diagnosis(recent_messages(all_messages))
        \o check_preflight_missing(recent_messages(all_messages))
        \o check_credential_usage(all_messages)
        \o check_tool_discovery(all_messages)

\* every detector of main starts with extract_bash_commands, and
\* check_credential_usage applies it to the full transcript
MainRaises(all_messages) ==
    ExtractRaises(recent_messages(all_messages)) \/ ExtractRaises(all_messages)

MaxMainLen == 2

MainAlphabet ==
    { ListMsg("assistant", <<BashItem(ApplyA)>>),
      ListMsg("assistant", <<BashItem(PytestE2E)>>),
      \* the same credential command issued twice in one message
      ListMsg("assistant", <<BashItem(ExportPw), BashItem(ExportPw)>>),
      StrMsg("assistant", Phrase(<<"ls", "./scripts">>)),
      ListMsg("assistant", <<BadInputItem, BashItem(SetToken)>>),
      BadMessage("assistant"),
      NoMessage("assistant") }

\* the number of user messages ahead of the messages drawn from the alphabet
FillerCounts == {0, RecentMessages - 1, RecentMessages}

InitMain ==
    /\ messages \in { [i \in 1..k |-> GoOn] \o tail :
                        k \in FillerCounts,
                        tail \in UNION {[1..n -> MainAlphabet] : n \in 0..MaxMainLen} }
    /\ pc = {}
    /\ project = <<>>
    /\ report = <<>>
    /\ lines = <<>>
    /\ lookback = DefaultLookback
    /\ warnings = <<>>
    /\ findings = <<>>
    /\ total_rules = MaxRules
    /\ violations = 0
    /\ compliance = 100

\* checker.py main: an exception of a detector ends main before the report
Main ==
    /\ "main" \notin pc
    /\ IF MainRaises(messages)
       THEN /\ pc' = pc \cup {"main", "raised"}
            /\ UNCHANGED <<warnings, findings, violations, compliance>>
       ELSE /\ pc' = pc \cup {"main"}
            /\ warnings' = MainWarnings(messages)
            /\ findings' = sorted_warnings(MainWarnings(messages))
            /\ violations' = Len(MainWarnings(messages))
            /\ compliance' = CheckerCompliance(total_rules, Len(MainWarnings(messages)))
    /\ UNCHANGED <<project, report, lines, lookback, messages, total_rules>>

NextMain == Main

SpecMain == InitMain /\ [][NextMain]_vars

\* C16: the merged warning list that is reported and scored holds no two
\* warnings equal in type, severity, message_range and command.
C16_NoDuplicateWarnings ==
    "main" \in pc =>
        /\ \A i, j \in DOMAIN warnings : warnings[i] = warnings[j] => i = j
        /\ violations = Cardinality(Range(warnings))

\* the record with its malformed parts left out: a message that is not a
\* mapping counts as absent, a Bash item with a bad input is dropped
Sanitize(msg) ==
    IF msg.shape = "notmapping" THEN NoMessage(msg.type)
    ELSE [msg EXCEPT !.items = Filter(msg.items, LAMBDA it : ~HasBadInput(it))]

Sanitized(msgs) == [i \in DOMAIN msgs |-> Sanitize(msgs[i])]

\* C18: a malformed record or tool-call payload is skipped: the detectors
\* return their findings for all other items and every detector of main
\* contributes its warnings.
C18_MalformedPayloadSkipped ==
    "main" \in pc =>
        /\ "raised" \notin pc
        /\ warnings = MainWarnings(Sanitized(messages))

\* the same for records whose message is absent
C18_AbsentMessageSkipped ==
    ("main" \in pc /\ ~ExtractRaises(messages)) =>
        /\ "raised" \notin pc
        /\ warnings = MainWarnings(Sanitized(messages))

\* the Bash commands of the message at the (0-based) index idx of the full
\* transcript
CommandsAtIndex(idx) ==
    IF idx < 0 \/ idx >= Len(messages) THEN {}
    ELSE IF messages[idx + 1].type # "assistant" \/ messages[idx + 1].shape # "list"
         THEN {}
    ELSE Range(CmdsOf(messages[idx + 1]))

\* the warning w is the one its detector builds from the messages of the full
\* transcript at the indices of its message_range
PointsIntoTranscript(w) ==
    CASE w.type = "RETRY_WITHOUT_DIAGNOSIS" ->
            \E c1 \in CommandsAtIndex(w.message_range[1]),
               c2 \in CommandsAtIndex(w.message_range[2]) :
                /\ CommandKey(c1) = CommandKey(c2)
                /\ w = RetryWarning([idx |-> w.message_range[1], cmd |-> c1],
                                    [idx |-> w.message_range[2], cmd |-> c2])
      [] w.type = "MISSING_PREFLIGHT" ->
            \E c \in CommandsAtIndex(w.message_range[1]) :
                w = PreflightWarning([idx |-> w.message_range[1], cmd |-> c])
      [] w.type = "CREDENTIAL_ASSUMPTION" ->
            \E c \in CommandsAtIndex(w.message_range[1]) :
                w = CredentialWarning([idx |-> w.message_range[1], cmd |-> c])
      [] OTHER -> TRUE

\* C20: every message index of a warning reported by main is the position of
\* that message in the full transcript, also when the transcript has more
\* than 50 messages.
C20_IndicesOfFullTranscript ==
    "main" \in pc => \A k \in DOMAIN warnings : PointsIntoTranscript(warnings[k])

\* the same for transcripts of at most 50 messages
C20_UpToFiftyMessages ==
    ("main" \in pc /\ Len(messages) <= RecentMessages) =>
        \A k \in DOMAIN warnings : PointsIntoTranscript(warnings[k])

MainReported ==
    /\ "main" \in pc /\ "raised" \notin pc
    /\ Len(messages) > RecentMessages
    /\ \E k \in DOMAIN warnings : warnings[k].type = "TOOL_DISCOVERY_GAP"
    /\ \E k \in DOMAIN warnings : warnings[k].type = "RETRY_WITHOUT_DIAGNOSIS"



-----------------------------------------------------------------------------
(* Loading a transcript: checker.py load_conversation, patterns.py           *)
(* load_messages.  A line of the file is blank, a JSON record, or a          *)
(* non-blank text that json.loads rejects.                                   *)

BlankLine == [kind |-> "blank", record |-> GoOn]
MalformedLine == [kind |-> "malformed", record |-> GoOn]
RecordLine(msg) == [kind |-> "record", record |-> msg]

\* `if line.strip()`: the lines handed to json.loads
NonBlank(ls) == Filter(ls, LAMBDA l : l.kind # "blank")

\* json.loads raises JSONDecodeError on a line that is not a JSON text
LoadRaises(ls) == \E i \in DOMAIN ls : ls[i].kind = "malformed"

\* the list built by the loop when no line raises
LoadedRecords(ls) == [k \in 1..Len(NonBlank(ls)) |-> NonBlank(ls)[k].record]

\* s[-k:] for k >= 0: -0 is 0, so s[-0:] is the whole list
SliceLast(s, k) ==
    IF k = 0 THEN s ELSE SubSeq(s, Max(1, Len(s) - k + 1), Len(s))

\* messages[-lookback:] if len(messages) > lookback else messages
Trailing(s, k) == IF Len(s) > k THEN SliceLast(s, k) ELSE s

MaxLines == 3
MaxLookback == 3

LineAlphabet ==
    { BlankLine, MalformedLine, RecordLine(GoOn),
      RecordLine(ListMsg("assistant", <<BashItem(ApplyA)>>)) }

InitLoad ==
    /\ lines \in UNION {[1..n -> LineAlphabet] : n \in 0..MaxLines}
    /\ lookback \in 0..MaxLookback
    /\ project = <<>>
    /\ report = <<>>
    /\ messages = <<>>
    /\ pc = {}
    /\ warnings = <<>>
    /\ findings = <<>>
    /\ total_rules = 0
    /\ violations = 0
    /\ compliance = 100

\* checker.py load_conversation(filepath, lookback)
LoadConversation ==
    /\ pc = {}
    /\ IF LoadRaises(lines)
       THEN /\ pc' = {"load_conversation", "raised"}
            /\ UNCHANGED messages
       ELSE /\ pc' = {"load_conversation"}
            /\ messages' = Trailing(LoadedRecords(lines), lookback)
    /\ UNCHANGED <<project, report, lines, lookback, warnings, findings, total_rules, violations, compliance>>

\* patterns.py load_messages(filepath)
LoadMessages ==
    /\ pc = {}
    /\ IF LoadRaises(lines)
       THEN /\ pc' = {"load_messages", "raised"}
            /\ UNCHANGED messages
       ELSE /\ pc' = {"load_messages"}
            /\ messages' = LoadedRecords(lines)
    /\ UNCHANGED <<project, report, lines, lookback, warnings, findings, total_rules, violations, compliance>>

NextLoad == LoadConversation \/ LoadMessages

SpecLoad == InitLoad /\ [][NextLoad]_vars

\* the records of the well-formed lines, in their order
WellFormedRecords ==
    LET good == Filter(lines, LAMBDA l : l.kind = "record")
    IN  [k \in 1..Len(good) |-> good[k].record]

IsSuffix(s, t) == Len(s) <= Len(t) /\ s = SubSeq(t, Len(t) - Len(s) + 1, Len(t))

\* C17: loading never fails because of a malformed line: blank lines and
\* non-blank lines that are not parsable records are skipped and the
\* well-formed records are returned in their original order.
C17_MalformedLineSkipped ==
    pc # {} =>
        /\ "raised" \notin pc
        /\ "load_messages" \in pc => messages = WellFormedRecords
        /\ "load_conversation" \in pc => IsSuffix(messages, WellFormedRecords)

\* the same for files whose non-blank lines are all records
C17_BlankLineSkipped ==
    (pc # {} /\ ~LoadRaises(lines)) =>
        /\ "raised" \notin pc
        /\ "load_messages" \in pc => messages = WellFormedRecords
        /\ "load_conversation" \in pc => IsSuffix(messages, WellFormedRecords)

\* C19: for every lookback K >= 0 and every transcript of n records
\* load_conversation returns exactly the last min(K, n) records in their
\* original order.
C19_LastKRecords ==
    ("load_conversation" \in pc /\ "raised" \notin pc) =>
        /\ Len(messages) = Min(lookback, Len(WellFormedRecords))
        /\ IsSuffix(messages, WellFormedRecords)

\* the same for K >= 1
C19_PositiveLookback ==
    ("load_conversation" \in pc /\ "raised" \notin pc /\ lookback >= 1) =>
        /\ Len(messages) = Min(lookback, Len(WellFormedRecords))
        /\ IsSuffix(messages, WellFormedRecords)

LoadedTrailing ==
    /\ "load_conversation" \in pc /\ "raised" \notin pc
    /\ lookback >= 1 /\ Len(messages) = lookback /\ Len(WellFormedRecords) > lookback



-----------------------------------------------------------------------------
(* Two runs of the checker on one transcript *)

\* checker.py:421-431 in a run with the given hash seed
RunWarnings(all_messages, seed) ==
    RetryWarningsInRun(recent_messages(all_messages), seed)
        \o check_preflight_missing(recent_messages(all_messages))
        \o check_credential_usage(all_messages)
        \o check_tool_discovery(all_messages)

MaxTwiceLen == 3

TwiceAlphabet ==
    { ListMsg("assistant", <<BashItem(ApplyA)>>),
      ListMsg("assistant", <<BashItem(HelmUp), BashItem(HelmUp)>>),
      ListMsg("assistant", <<BashItem(PytestE2E)>>),
      ListMsg("assistant", <<BashItem(ExportPw)>>),
      StrMsg("assistant", LogsX) }

InitTwice ==
    /\ messages \in UNION {[1..n -> TwiceAlphabet] : n \in 0..MaxTwiceLen}
    /\ pc = {}
    /\ project = <<>>
    /\ report = <<>>
    /\ lines = <<>>
    /\ lookback = DefaultLookback
    /\ warnings = <<>>
    /\ findings = <<>>
    /\ total_rules \in {0, MaxRules}
    /\ violations = 0
    /\ compliance = 100

\* one run of the detectors and of the score, the first or the second on the
\* transcript; each run has its own hash seed
CheckerRun ==
    /\ "second run" \notin pc
    /\ \E seed \in HashSeeds :
          /\ warnings' = RunWarnings(messages, seed)
          /\ findings' = sorted_warnings(RunWarnings(messages, seed))
          /\ violations' = Len(RunWarnings(messages, seed))
          /\ compliance' = CheckerCompliance(total_rules, Len(RunWarnings(messages, seed)))
    /\ pc' = IF "first run" \in pc THEN pc \cup {"second run"} ELSE {"first run"}
    /\ UNCHANGED <<project, report, lines, lookback, messages, total_rules>>

NextTwice == CheckerRun

SpecTwice == InitTwice /\ [][NextTwice]_vars

-----------------------------------------------------------------------------
(* checker.py extract_bash_commands on its own *)

MaxExtractLen == 3

ExtractAlphabet ==
    { ListMsg("assistant", <<BashItem(ApplyA)>>),
      ListMsg("assistant", <<BashItem(HelmUp), TextItem(LogsX), ReadItem, BashItem(ApplyA)>>),
      ListMsg("assistant", <<TextItem(LogsX), ReadItem>>),
      StrMsg("assistant", ApplyA),
      \* a user record that quotes a tool call
      ListMsg("user", <<BashItem(ApplyB)>>),
      NoMessage("assistant"),
      GoOn }

InitExtract ==
    /\ messages \in UNION {[1..n -> ExtractAlphabet] : n \in 0..MaxExtractLen}
    /\ pc = {}
    /\ project = <<>>
    /\ report = <<>>
    /\ lines = <<>>
    /\ lookback = DefaultLookback
    /\ warnings = <<>>
    /\ findings = <<>>
    /\ total_rules = 0
    /\ violations = 0
    /\ compliance = 100

\* extract_bash_commands(messages): findings holds the returned pairs
ExtractBashCommands ==
    /\ "extract_bash_commands" \notin pc
    /\ findings' = extract_bash_commands(messages)
    /\ pc' = pc \cup {"extract_bash_commands"}
    /\ UNCHANGED <<project, report, lines, lookback, messages, warnings, total_rules, violations, compliance>>

NextExtract == ExtractBashCommands

SpecExtract == InitExtract /\ [][NextExtract]_vars

\* the commands returned for the (0-based) index i, in the order returned
ReturnedFor(i) ==
    LET at == Filter(findings, LAMBDA c : c.idx = i)
    IN  [k \in 1..Len(at) |-> at[k].cmd]

\* C22: every (index, command) pair returned by extract_bash_commands has an
\* index i with 0 <= i < len(messages) whose message is of type assistant, and
\* the pairs are in non-decreasing index order with the commands of one
\* message in their original order.
C22_PairsPointAtAssistantMessages ==
    "extract_bash_commands" \in pc =>
        /\ \A k \in DOMAIN findings :
              /\ 0 <= findings[k].idx /\ findings[k].idx < Len(messages)
              /\ messages[findings[k].idx + 1].type = "assistant"
        /\ \A k, l \in DOMAIN findings : k < l => findings[k].idx <= findings[l].idx
        /\ \A i \in 0..(Len(messages) - 1) :
              messages[i + 1].type = "assistant" /\ messages[i + 1].shape = "list"
                  => ReturnedFor(i) = CmdsOf(messages[i + 1])

\* two commands of one assistant message returned after a user message that
\* holds a Bash item
C22_Witness ==
    /\ "extract_bash_commands" \in pc
    /\ Len(messages) >= 2
    /\ messages[1] = ListMsg("user", <<BashItem(ApplyB)>>)
    /\ ReturnedFor(1) = <<HelmUp, ApplyA>>



-----------------------------------------------------------------------------
(* Further properties of the two retry detectors *)

\* cmd starts, lowered and trimmed, with an entry of NORMAL_RETRY_COMMANDS
StartsWithNormalRetry(cmd) ==
    \E entry \in NORMAL_RETRY_COMMANDS : StartsWith(Strip(Lower(cmd)), entry)

\* C24: find_retry_without_diagnosis never emits a finding whose command
\* starts (case-insensitively, after trimming) with an entry of
\* NORMAL_RETRY_COMMANDS, however often that command is repeated.
C24_NoFindingForNormalRetry ==
    "find_retry" \in pc =>
        \A k \in DOMAIN findings : ~StartsWithNormalRetry(findings[k].command)

\* a test command run twice in a transcript that has a finding for another
\* command
C24_Witness ==
    /\ "find_retry" \in pc
    /\ findings # <<>>
    /\ Cardinality({i \in DOMAIN messages :
                       messages[i] = ListMsg("assistant", <<BashItem(PytestFoo)>>)}) >= 2

\* an assistant message strictly between the indices a and b runs a
\* diagnostic command as a Bash tool call
DiagnosticRunBetween(a, b) ==
    \E m \in (a + 1)..(b - 1) :
        /\ messages[m + 1].type = "assistant"
        /\ messages[m + 1].shape = "list"
        /\ \E c \in Range(CmdsOf(messages[m + 1])) : is_diagnostic_command(c)

\* C25: if an assistant message strictly between two occurrences of the same
\* action key runs a diagnostic command as a Bash tool call, the pair is not
\* flagged, even when no text item of that message mentions the command.
C25_DiagnosticToolCallSuppresses ==
    "check_retry" \in pc =>
        \A k \in DOMAIN warnings :
            ~DiagnosticRunBetween(warnings[k].message_range[1],
                                  warnings[k].message_range[2])

\* C28: every RETRY_WITHOUT_DIAGNOSIS warning refers to two distinct messages:
\* its message_range a-b satisfies a < b.
C28_RetryOfDistinctMessages ==
    "check_retry" \in pc =>
        \A k \in DOMAIN warnings :
            warnings[k].message_range[1] < warnings[k].message_range[2]

\* the same for the occurrences that lie in different messages
C28_OrderedRange ==
    "check_retry" \in pc =>
        \A k \in DOMAIN warnings :
            warnings[k].message_range[1] <= warnings[k].message_range[2]



-----------------------------------------------------------------------------
(* checker.py check_tool_discovery on its own *)

MaxDiscoveryLen == 2

LsScripts == Phrase(<<"ls", "./scripts">>)

DiscoveryAlphabet ==
    { StrMsg("assistant", <<"ran", " ">> \o LsScripts),
      ListMsg("assistant", <<TextItem(Phrase(<<"cat", "tools.md">>)), ReadItem>>),
      \* the discovery run as a tool call, no text
      ListMsg("assistant", <<BashItem(LsScripts)>>),
      StrMsg("user", LsScripts),
      GoOn }

\* the number of user messages ahead of the messages drawn from the alphabet
DiscoveryFillers == (ToolDiscoveryMin - 3)..ToolDiscoveryMin

InitDiscovery ==
    /\ messages \in { [i \in 1..k |-> GoOn] \o tail :
                        k \in DiscoveryFillers,
                        tail \in UNION {[1..n -> DiscoveryAlphabet] : n \in 0..MaxDiscoveryLen} }
    /\ pc = {}
    /\ project = <<>>
    /\ report = <<>>
    /\ lines = <<>>
    /\ lookback = DefaultLookback
    /\ warnings = <<>>
    /\ findings = <<>>
    /\ total_rules = 0
    /\ violations = 0
    /\ compliance = 100

CheckToolDiscovery ==
    /\ "check_tool_discovery" \notin pc
    /\ warnings' = check_tool_discovery(messages)
    /\ pc' = pc \cup {"check_tool_discovery"}
    /\ UNCHANGED <<project, report, lines, lookback, messages, findings, total_rules, violations, compliance>>

NextDiscovery == CheckToolDiscovery

SpecDiscovery == InitDiscovery /\ [][NextDiscovery]_vars

\* the text of some assistant message holds a tool-discovery keyword
DiscoveredInAssistantText ==
    \E i \in DOMAIN messages :
        /\ messages[i].type = "assistant"
        /\ \E kw \in ToolDiscoveryKeywords : Contains(Lower(extract_text(messages[i])), kw)

\* C26: no warning for a transcript of fewer than 50 messages; for 50 or more
\* messages exactly one TOOL_DISCOVERY_GAP warning of severity LOW if no
\* assistant message text contains a tool-discovery keyword, and no warning
\* otherwise.
C26_ToolDiscoveryGap ==
    "check_tool_discovery" \in pc =>
        IF Len(messages) >= 50 /\ ~DiscoveredInAssistantText
        THEN /\ Len(warnings) = 1
             /\ warnings[1].type = "TOOL_DISCOVERY_GAP"
             /\ warnings[1].severity = "LOW"
        ELSE warnings = <<>>

\* a transcript of exactly 50 messages whose only keyword is in a user message
C26_Witness ==
    /\ "check_tool_discovery" \in pc
    /\ Len(messages) = 50
    /\ messages[50] = StrMsg("user", LsScripts)
    /\ warnings # <<>>

\* a transcript of 49 messages without a keyword, and one of 50 or more with a
\* keyword in assistant text
C26_WitnessNone ==
    /\ "check_tool_discovery" \in pc
    /\ warnings = <<>>
    /\ \/ Len(messages) = 49 /\ ~DiscoveredInAssistantText
       \/ Len(messages) > 50 /\ DiscoveredInAssistantText



-----------------------------------------------------------------------------
(* analyzer.py analyze_conversation: scope expansion per turn *)

\* analyzer.py extract_text_from_content, for contents that are a string or a
\* list of text items and tool calls
extract_text_from_content(msg) ==
    IF msg.shape = "str" THEN msg.text
    ELSE Join("\n", [k \in 1..Len(Filter(msg.items, LAMBDA it : it.type = "text"))
                       |-> Filter(msg.items, LAMBDA it : it.type = "text")[k].text])

\* expansion_keywords, in the order of the list
expansion_keywords ==
    << <<"also">>, <<"additionally">>, <<"furthermore">>,
       Phrase(<<"we", "should", "also">>), Phrase(<<"let", "me", "also">>),
       Phrase(<<"i", "will", "also">>), Phrase(<<"we", "need", "to">>) >>

\* the sentences appended for one message and one keyword
ExpansionsOfKeyword(msg, keyword) ==
    IF ~Contains(Lower(msg), keyword) THEN <<>>
    ELSE LET sentences == SplitOn(msg, ".", <<>>)
         IN  Flatten([k \in 1..Len(sentences) |->
                 IF Contains(Lower(sentences[k]), keyword)
                 THEN <<Strip(sentences[k])>> ELSE <<>>])

\* analyzer.py detect_scope_expansion(user_msg, assistant_msgs)
detect_scope_expansion(user_msg, assistant_msgs) ==
    Flatten([m \in 1..Len(assistant_msgs) |->
        Flatten([n \in 1..Len(expansion_keywords) |->
            ExpansionsOfKeyword(assistant_msgs[m], expansion_keywords[n])])])

\* the loop of analyze_conversation from position pos on: a turn is analysed
\* when the next user message arrives; nothing is analysed after the loop
RECURSIVE AnalyzeScan(_, _, _, _)
AnalyzeScan(msgs, pos, current_user_msg, current_assistant_msgs) ==
    IF pos > Len(msgs) THEN <<>>
    ELSE IF msgs[pos].type = "user"
         THEN (IF current_user_msg # <<>> /\ current_assistant_msgs # <<>>
               THEN detect_scope_expansion(current_user_msg, current_assistant_msgs)
               ELSE <<>>)
              \o AnalyzeScan(msgs, pos + 1, extract_text_from_content(msgs[pos]), <<>>)
    ELSE IF msgs[pos].type = "assistant"
         THEN AnalyzeScan(msgs, pos + 1, current_user_msg,
                          Append(current_assistant_msgs,
                                 extract_text_from_content(msgs[pos])))
    ELSE AnalyzeScan(msgs, pos + 1, current_user_msg, current_assistant_msgs)

\* stats.scope_expansions of analyze_conversation
scope_expansions(msgs) == AnalyzeScan(msgs, 1, <<>>, <<>>)

InitAnalyze ==
    /\ messages \in UNION {[1..n -> ScopeAlphabet] : n \in 0..MaxScopeLen}
    /\ pc = {}
    /\ project = <<>>
    /\ report = <<>>
    /\ lines = <<>>
    /\ lookback = DefaultLookback
    /\ warnings = <<>>
    /\ findings = <<>>
    /\ total_rules = 0
    /\ violations = 0
    /\ compliance = 100

\* analyze_conversation: findings holds stats.scope_expansions
AnalyzeConversation ==
    /\ "analyze_conversation" \notin pc
    /\ findings' = scope_expansions(messages)
    /\ pc' = pc \cup {"analyze_conversation"}
    /\ UNCHANGED <<project, report, lines, lookback, messages, warnings, total_rules, violations, compliance>>

NextAnalyze == AnalyzeConversation

SpecAnalyze == InitAnalyze /\ [][NextAnalyze]_vars

\* the sentence holds an expansion keyword, capitals disregarded
HasExpansionKeyword(sentence) ==
    \E n \in DOMAIN expansion_keywords : Contains(Lower(sentence), expansion_keywords[n])

\* the expansion sentences of the assistant message at pos are all in
\* stats.scope_expansions
ExpansionsReported(pos) ==
    LET sentences == SplitOn(extract_text_from_content(messages[pos]), ".", <<>>)
    IN  \A k \in DOMAIN sentences :
            HasExpansionKeyword(sentences[k]) =>
                \E e \in DOMAIN findings : findings[e] = Strip(sentences[k])

\* C27: analyze_conversation checks every assistant message that follows a
\* user message for scope expansion, including the assistant messages of the
\* final turn: an expansion sentence in the last turn appears in
\* stats.scope_expansions.
C27_FinalTurnChecked ==
    "analyze_conversation" \in pc =>
        \A pos \in DOMAIN messages : FollowsRequest(pos) => ExpansionsReported(pos)

\* the same for the turns that a later user message closes
C27_ClosedTurnsChecked ==
    "analyze_conversation" \in pc =>
        \A pos \in DOMAIN messages :
            (FollowsRequest(pos) /\ \E q \in (pos + 1)..Len(messages) : messages[q].type = "user")
                => ExpansionsReported(pos)

AnalyzeReported ==
    "analyze_conversation" \in pc /\ findings # <<>>



-----------------------------------------------------------------------------
(* vision-plan-tranche-sync.py: vision -> plan -> tranches                   *)
(*                                                                           *)
(* The plan file is the sequence of its lines that have the shape            *)
(*     <ordinal>. <key> <body>: <status>. tranche_group=<group>              *)
(* inside the '## Next Work Tranches' section (section) and after it (rest); *)
(* no other line of the file can match PLAN_HEADER_RE.  A key I<digits> is   *)
(* its number and the count of its leading zeros.                            *)

\* the backquote character of PLAN_HEADER_RE, as a piece
Backtick == "<backquote>"

\* f"I{n:03d}"
FormatKey(n) ==
    [num |-> n, zeros |-> IF n < 10 THEN 2 ELSE IF n < 100 THEN 1 ELSE 0]

PlanLine(ordinal, key, body, status, group) ==
    [ordinal |-> ordinal, key |-> key, body |-> body, status |-> status, group |-> group]

\* a title between backticks, as PLAN_HEADER_RE expects it
Ticked(title) == <<Backtick>> \o title \o <<Backtick>>

\* PLAN_HEADER_RE.match(line): the body is `[^`]+` and the status is one of
\* the three words
HeaderMatches(line) ==
    /\ Len(line.body) >= 3
    /\ line.body[1] = Backtick
    /\ line.body[Len(line.body)] = Backtick
    /\ \A i \in 2..(Len(line.body) - 1) : line.body[i] # Backtick
    /\ line.status \in {"complete", "incomplete", "blocked"}

\* the entry built from a matching line: the title is group(3).strip()
EntryOf(line) ==
    [ ordinal |-> line.ordinal, key |-> line.key,
      title |-> Strip(SubSeq(line.body, 2, Len(line.body) - 1)),
      status |-> line.status, group |-> line.group ]

\* parse_implementation_plan(path)
parse_implementation_plan(plan) ==
    LET matching == Filter(plan.section \o plan.rest, LAMBDA line : HeaderMatches(line))
    IN  [k \in 1..Len(matching) |-> EntryOf(matching[k])]

\* the pieces that [^a-zA-Z0-9 ] and \s+ leave as words
IsWordPiece(p) == ~IsSpace(p) /\ p \notin {Backtick, "!", ".", ":", ",", "-", "#"}

\* normalize_text(value): the lowered words, one blank between them
normalize_text(value) ==
    LET words == Filter(value, LAMBDA p : IsWordPiece(p))
    IN  Join(" ", [k \in 1..Len(words) |-> <<LowerPiece(words[k])>>])

\* the words of SECTION_PRIORITY_RE (matched with re.IGNORECASE)
SectionPriorityWords ==
    {"vision", "roadmap", "plan", "backlog", "next", "upcoming", "milestone", "todo"}

VisionHeader(text) == [kind |-> "header", text |-> text]
VisionBullet(text) == [kind |-> "bullet", text |-> text]

\* the loop of parse_vision_items from line pos on: items of the sections in
\* scope, stripped, empty ones left out
RECURSIVE VisionScan(_, _, _)
VisionScan(vlines, pos, in_scope) ==
    IF pos > Len(vlines) THEN <<>>
    ELSE IF vlines[pos].kind = "header"
         THEN VisionScan(vlines, pos + 1,
                         \E i \in DOMAIN vlines[pos].text :
                             LowerPiece(vlines[pos].text[i]) \in SectionPriorityWords)
    ELSE IF ~in_scope THEN VisionScan(vlines, pos + 1, in_scope)
    ELSE IF vlines[pos].kind = "bullet" /\ Strip(vlines[pos].text) # <<>>
         THEN <<Strip(vlines[pos].text)>> \o VisionScan(vlines, pos + 1, in_scope)
    ELSE VisionScan(vlines, pos + 1, in_scope)

\* "Keep unique while preserving order": by normalized text
RECURSIVE DedupItems(_, _)
DedupItems(items, seen) ==
    IF items = <<>> THEN <<>>
    ELSE IF normalize_text(Head(items)) = <<>> \/ normalize_text(Head(items)) \in seen
         THEN DedupItems(Tail(items), seen)
    ELSE <<Head(items)>> \o DedupItems(Tail(items), seen \cup {normalize_text(Head(items))})

\* parse_vision_items(path)
parse_vision_items(vision) == DedupItems(VisionScan(vision.lines, 1, FALSE), {})

\* max(values) if values else 0
MaxOf(S) == IF S = {} THEN 0 ELSE CHOOSE m \in S : \A x \in S : x <= m

max_key(entries) == MaxOf({entries[k].key.num : k \in DOMAIN entries})
max_ordinal(entries) == MaxOf({entries[k].ordinal : k \in DOMAIN entries})

\* guess_group(text): the first word list with a word of the lowered text
guess_group(text) ==
    LET t == Range(Lower(text))
    IN  IF t \cap {"read", "write", "edit", "patch", "file", "filesystem", "glob", "index"} # {}
        THEN "tool-io"
        ELSE IF t \cap {"shell", "command", "bash", "run", "process", "exec"} # {}
        THEN "tool-shell"
        ELSE IF t \cap {"router", "model", "provider", "anthropic", "openai", "kimi"} # {}
        THEN "multi-model"
        ELSE IF t \cap {"sandbox", "security", "permission", "policy", "safe", "deny", "allow"} # {}
        THEN "permission-mode"
        ELSE IF t \cap {"lsp", "symbol", "search", "repo", "ast", "reflector"} # {}
        THEN "tool-search-ui"
        ELSE "cross-cutting"

\* vision-plan-tranche-sync.py:211-231: the items whose normalized text is
\* not an existing title, numbered from the next ordinal and the next key
Proposals(vision_items, existing_plan_entries) ==
    LET existing_titles ==
            {normalize_text(existing_plan_entries[k].title) : k \in DOMAIN existing_plan_entries}
        fresh == Filter(vision_items, LAMBDA item : normalize_text(item) \notin existing_titles)
    IN  [k \in 1..Len(fresh) |->
            [ ordinal |-> max_ordinal(existing_plan_entries) + k,
              key |-> FormatKey(max_key(existing_plan_entries) + k),
              title |-> fresh[k],
              status |-> "incomplete",
              group |-> guess_group(fresh[k]) ]]

\* line 243: the header line written for a proposal; the title is written as
\* it is, without backticks
ProposalLine(proposal) ==
    PlanLine(proposal.ordinal, proposal.key, proposal.title, proposal.status, proposal.group)

\* sync_plan(plan_path, vision_items, existing_plan_entries, source_name,
\* apply_changes): the returned count and titles, the plan file afterwards,
\* and whether split_plan_text_for_insertion raised ValueError
sync_plan(plan, vision_items, existing_plan_entries, apply_changes) ==
    LET proposals == Proposals(vision_items, existing_plan_entries)
    IN  IF proposals = <<>>
        THEN [raised |-> FALSE, added |-> 0, titles |-> <<>>, plan |-> plan]
        ELSE IF ~plan.has_section
        THEN [raised |-> TRUE, added |-> 0, titles |-> <<>>, plan |-> plan]
        ELSE [ raised |-> FALSE,
               added |-> Len(proposals),
               titles |-> [k \in 1..Len(proposals) |-> proposals[k].title],
               plan |-> IF apply_changes
                        THEN [plan EXCEPT !.section =
                                 @ \o [k \in 1..Len(proposals) |-> ProposalLine(proposals[k])]]
                        ELSE plan ]

\* a [[tranches]] block as sync_tranches writes it; summary is json.dumps(title)
TrancheBlock(e) ==
    [ key |-> e.key, summary |-> <<"\"">> \o e.title \o <<"\"">>,
      status |-> e.status, group |-> e.group ]

\* parse_toml_tranches(path): the blocks of the file, none if it is absent
parse_toml_tranches(tranches) == IF tranches.exists THEN tranches.blocks ELSE <<>>

\* the tranches file after the blocks of to_add are written to it: written
\* after "version = 1" if it was absent
WriteTranches(tranches, to_add) ==
    [ dir |-> tranches.dir, exists |-> TRUE,
      blocks |-> parse_toml_tranches(tranches)
          \o [k \in 1..Len(to_add) |-> TrancheBlock(to_add[k])] ]

\* mutant of sync_tranches: the file is written whatever apply_changes is
sync_tranches_AlwaysWrites(plan_entries, tranches, apply_changes) ==
    LET existing_keys == {parse_toml_tranches(tranches)[k].key :
                             k \in DOMAIN parse_toml_tranches(tranches)}
        to_add == Filter(plan_entries,
                         LAMBDA e : /\ e.status \in {"incomplete", "blocked"}
                                    /\ e.key \notin existing_keys)
    IN  IF to_add = <<>>
        THEN [raised |-> FALSE, count |-> 0, keys |-> <<>>, tranches |-> tranches]
        ELSE IF ~tranches.dir
        THEN [raised |-> TRUE, count |-> 0, keys |-> <<>>, tranches |-> tranches]
        ELSE [ raised |-> FALSE,
               count |-> Len(to_add),
               keys |-> [k \in 1..Len(to_add) |-> to_add[k].key],
               tranches |-> WriteTranches(tranches, to_add) ]

\* sync_tranches(plan_entries, tranches_path, apply_changes): the returned
\* count and keys, the tranches file afterwards, and whether write_text
\* raised FileNotFoundError (the directory of the file is missing)
sync_tranches(plan_entries, tranches, apply_changes) ==
    LET existing_keys == {parse_toml_tranches(tranches)[k].key :
                             k \in DOMAIN parse_toml_tranches(tranches)}
        to_add == Filter(plan_entries,
                         LAMBDA e : /\ e.status \in {"incomplete", "blocked"}
                                    /\ e.key \notin existing_keys)
    IN  IF to_add = <<>>
        THEN [raised |-> FALSE, count |-> 0, keys |-> <<>>, tranches |-> tranches]
        ELSE IF apply_changes /\ ~tranches.dir
        THEN [raised |-> TRUE, count |-> 0, keys |-> <<>>, tranches |-> tranches]
        ELSE [ raised |-> FALSE,
               count |-> Len(to_add),
               keys |-> [k \in 1..Len(to_add) |-> to_add[k].key],
               tranches |-> IF apply_changes
                            THEN WriteTranches(tranches, to_add)
                            ELSE tranches ]

\* run(): one run of the sync on the project with the parsed arguments; the
\* project afterwards and what the run returned and printed
run(proj, args) ==
    LET entries == parse_implementation_plan(proj.plan)
        with_plan == args.mode # "only_tranches"
        sp == IF with_plan /\ proj.vision.exists
              THEN sync_plan(proj.plan, parse_vision_items(proj.vision), entries, args.apply)
              ELSE [raised |-> FALSE, added |-> 0, titles |-> <<>>, plan |-> proj.plan]
        blocked == with_plan /\ ~proj.vision.exists /\ args.force
        plan_entries == IF sp.added > 0 /\ args.apply
                        THEN parse_implementation_plan(sp.plan)
                        ELSE entries
        with_tranches == ~sp.raised /\ ~blocked /\ args.mode # "only_plan"
        st == IF with_tranches
              THEN sync_tranches(plan_entries, proj.tranches, args.apply)
              ELSE [raised |-> FALSE, count |-> 0, keys |-> <<>>, tranches |-> proj.tranches]
    IN  [ project |-> [vision |-> proj.vision, plan |-> sp.plan, tranches |-> st.tranches],
          report |-> [ apply |-> args.apply, mode |-> args.mode, force |-> args.force,
                       exit |-> IF sp.raised THEN "ValueError"
                                ELSE IF blocked THEN "2"
                                ELSE IF st.raised THEN "FileNotFoundError"
                                ELSE "0",
                       plan_synced |-> with_plan /\ proj.vision.exists /\ ~sp.raised,
                       plan_added |-> sp.added,
                       plan_titles |-> sp.titles,
                       tranches_synced |-> with_tranches /\ ~st.raised,
                       tranche_count |-> st.count,
                       added_keys |-> st.keys ] ]

\* the longest vision file of the model, in lines
MaxVisionLen == 2

\* vision items: a plain one, one written between backticks, and one that
\* normalizes to the same text as the second
PlainItem == Phrase(<<"add", "file", "index">>)
TickedItem == Ticked(Phrase(<<"Router", "Fallback">>))
LoudItem == Phrase(<<"router", "fallback">>) \o <<"!">>

VisionAlphabet ==
    { VisionHeader(<<"Roadmap">>), VisionHeader(<<"notes">>),
      VisionBullet(PlainItem), VisionBullet(TickedItem), VisionBullet(LoudItem) }

Visions ==
    {[exists |-> FALSE, lines |-> <<>>]}
        \cup {[exists |-> TRUE, lines |-> ls] :
                 ls \in UNION {[1..n -> VisionAlphabet] : n \in 0..MaxVisionLen}}

\* plan files: one with the section, an open entry in it and a closed entry
\* with an unpadded key after it; one without the section
Plans ==
    { [ has_section |-> TRUE,
        section |-> <<PlanLine(1, FormatKey(1), Ticked(Phrase(<<"router", "fallback">>)),
                               "incomplete", "multi-model")>>,
        rest |-> <<PlanLine(3, [num |-> 7, zeros |-> 0], Ticked(Phrase(<<"file", "cache">>)),
                            "complete", "tool-io")>> ],
      [ has_section |-> FALSE,
        section |-> <<>>,
        rest |-> <<PlanLine(1, FormatKey(1), Ticked(Phrase(<<"router", "fallback">>)),
                            "blocked", "multi-model")>> ] }

\* tranches files: no directory, a directory without the file, and a file
\* with one block
TranchesFiles ==
    { [dir |-> FALSE, exists |-> FALSE, blocks |-> <<>>],
      [dir |-> TRUE, exists |-> FALSE, blocks |-> <<>>],
      [dir |-> TRUE, exists |-> TRUE,
       blocks |-> <<[ key |-> [num |-> 7, zeros |-> 0],
                      summary |-> <<"\"">> \o Phrase(<<"file", "cache">>) \o <<"\"">>,
                      status |-> "complete", group |-> "tool-io" ]>>] }

\* the arguments of a run: --force-principal-architect is read only when no
\* vision file is found
ArgsOf(proj) ==
    { [apply |-> a, mode |-> m, force |-> f] :
        a \in BOOLEAN, m \in {"both", "only_plan", "only_tranches"},
        f \in IF proj.vision.exists THEN {FALSE} ELSE BOOLEAN }

InitSync ==
    /\ project \in [vision : Visions, plan : Plans, tranches : TranchesFiles]
    /\ report = <<>>
    /\ pc = {}
    /\ lines = <<>>
    /\ lookback = DefaultLookback
    /\ messages = <<>>
    /\ warnings = <<>>
    /\ findings = <<>>
    /\ total_rules = 0
    /\ violations = 0
    /\ compliance = 100

\* one run of the script, the first or the second on the project
RunSync ==
    /\ "second run" \notin pc
    /\ \E args \in ArgsOf(project) :
          /\ project' = run(project, args).project
          /\ report' = Append(report, run(project, args).report)
    /\ pc' = IF "first run" \in pc THEN pc \cup {"second run"} ELSE {"first run"}
    /\ UNCHANGED <<lines, lookback, messages, warnings, findings, total_rules, violations, compliance>>

NextSync == RunSync

SpecSync == InitSync /\ [][NextSync]_vars

\* no key is on two header lines of the plan, and none in two blocks of the
\* tranches file
KeysWrittenOnce ==
    LET plan_lines == project.plan.section \o project.plan.rest
    IN  /\ \A i, j \in DOMAIN plan_lines : plan_lines[i].key = plan_lines[j].key => i = j
        /\ \A i, j \in DOMAIN project.tranches.blocks :
               project.tranches.blocks[i].key = project.tranches.blocks[j].key => i = j

\* C29: the sync is idempotent under --apply: after one run with --apply, a
\* second run with the same arguments on the unchanged vision file proposes
\* zero new plan entries and zero new tranches, and no plan key or tranche
\* key is written twice.
C29_IdempotentUnderApply ==
    ( /\ Len(report) = 2
      /\ report[1].apply /\ report[2].apply
      /\ report[1].mode = report[2].mode /\ report[1].force = report[2].force
      /\ report[1].exit = "0" /\ report[2].exit = "0" )
        => /\ report[2].plan_added = 0
           /\ report[2].tranche_count = 0
           /\ KeysWrittenOnce

\* a step that is a run without --apply
DryRunStep == Len(report') = Len(report) + 1 /\ ~report'[Len(report')].apply

\* the titles sync_plan adds to the plan with apply_changes, and the keys
\* sync_tranches adds to the tranches file with apply_changes
TitlesApplyAdds(proj) ==
    LET applied == sync_plan(proj.plan, parse_vision_items(proj.vision),
                             parse_implementation_plan(proj.plan), TRUE).plan
    IN  [k \in 1..(Len(applied.section) - Len(proj.plan.section)) |->
            applied.section[Len(proj.plan.section) + k].body]

KeysApplyAdds(proj) ==
    LET applied == sync_tranches(parse_implementation_plan(proj.plan), proj.tranches, TRUE).tranches
        before == Len(parse_toml_tranches(proj.tranches))
    IN  [k \in 1..(Len(applied.blocks) - before) |-> applied.blocks[before + k].key]

====
